---- MODULE Spec2Model ----
(***************************************************************************)
(* A model of the container daemon's boot-time restore (daemon/daemon.go,  *)
(* Daemon.restore) and of the name reservation it relies on                *)
(* (Daemon.reserveName / releaseName).                                     *)
(*                                                                         *)
(* restore is one main goroutine that walks through its phases (pc) and    *)
(* two fan-outs of worker goroutines: the first pass, one worker per       *)
(* loaded container, and the restart pass, one worker per container of     *)
(* restartContainers.  The collaborators whose code is not part of the     *)
(* modelled files (load, the registrar, the store, containerStart, ...)    *)
(* are modelled by their contract; each of their outcomes is a             *)
(* nondeterministic input of the action that calls them.                   *)
(***************************************************************************)
EXTENDS Integers, Sequences, FiniteSets, TLC

\* ------------------------------------------------------------------------
\* Bounds of the model
\* ------------------------------------------------------------------------
\* number of directories found in the container repository
NumContainers == 2
\* number of link aliases one container may declare
NumAliases == 2
\* number of concurrent callers of reserveName
NumCallers == 2
\* longest name a caller of reserveName passes
MaxNameLen == 3
\* length of a full container id (64 hex digits in the daemon)
IDLen == 3
\* number of containers the lookup test puts in the store
MaxStored == 2
\* the N of the restart policy on-failure:N
RetryLimit == 2
\* number of configuration reloads a daemon goes through
MaxReloads == 1
\* number of entries of XDG_CONFIG_DIRS
MaxDirs == 2
MaxMessages == 4        \* progress messages of one operation
ChanCap == 2            \* messages progressChan holds unread
GeneratedTries == 6     \* generated names tried before the id is used

IDs == 1..NumContainers
Aliases == 1..NumAliases
Callers == 1..NumCallers

\* ------------------------------------------------------------------------
\* Names.  A name is a sequence of characters; the alphabet holds one
\* character of every class the name pattern distinguishes.
\* ------------------------------------------------------------------------
Slash == "/"
Chars == {"/", "a", "-", "&"}

\* utils.RestrictedNameChars: [a-zA-Z0-9][a-zA-Z0-9_.-]
IsAlnum(ch) == ch \in {"a", "b"}
IsNameChar(ch) == ch \in {"a", "b", "-"}

\* validContainerNamePattern = ^/?[a-zA-Z0-9][a-zA-Z0-9_.-]+$
MatchString(name) ==
    LET body == IF Len(name) > 0 /\ name[1] = Slash THEN Tail(name) ELSE name
    IN  /\ Len(body) >= 2
        /\ IsAlnum(body[1])
        /\ \A i \in 2..Len(body) : IsNameChar(body[i])

\* the name as the caller passed it
WithSlashNever(name) == name

\* if name[0] != '/' { name = "/" + name }
WithSlash(name) == IF name[1] # Slash THEN <<Slash>> \o name ELSE name

\* the names callers of reserveName may pass
CallerNames == UNION { [1..k -> Chars] : k \in 0..MaxNameLen }

\* the names persisted containers carry (already stored with their slash)
NameA == <<"/", "a", "a">>
NameB == <<"/", "a", "-">>
PersistedNames == {NameA, NameB}
\* the first directory's container is called NameA, the others either way
NamesOf(id) == IF id = 1 THEN {NameA} ELSE PersistedNames

\* ------------------------------------------------------------------------
\* Persisted container state, as daemon.load deserializes it
\* ------------------------------------------------------------------------
\* recorded drivers: none (a container older than the Driver field), or one
Drivers == {"", "overlay"}
CurrentDrivers == {"aufs", "overlay"}

\* restart policy, last exit code and the restarts counted so far; an
\* on-failure container that exited non-zero has used all but one of its
\* retries, or all of them
NoRestart ==
    [Policy |-> "no", ExitCode |-> 1, MaximumRetryCount |-> 0,
     RestartCount |-> 0]
AlwaysRestart == [NoRestart EXCEPT !.Policy = "always"]
OnFailure(code, count) ==
    [Policy |-> "on-failure", ExitCode |-> code,
     MaximumRetryCount |-> RetryLimit, RestartCount |-> count]
RestartProfiles ==
    { NoRestart, AlwaysRestart, OnFailure(0, 0),
      OnFailure(1, RetryLimit - 1), OnFailure(1, RetryLimit) }

\* HostConfig as loaded: old format (Links == nil) or current format; "nil"
\* stands for a container object without a HostConfig
HostConfigs == {"legacy", "links"}

NoContainer ==
    [ Name |-> <<>>, Driver |-> "", Running |-> FALSE, Paused |-> FALSE,
      RemovalInProgress |-> FALSE, Dead |-> FALSE,
      Restart |-> NoRestart, Restarting |-> FALSE,
      HostConfig |-> "nil", RWLayer |-> FALSE,
      OnDisk |-> [Running |-> FALSE, Paused |-> FALSE,
                  RemovalInProgress |-> FALSE, Dead |-> FALSE] ]

VARIABLES
    pc,                 \* the phase restore's main goroutine is in
    err,                \* what restore returned ("none" while it runs)
    fault,              \* the top-level failure the environment injected
    currentDriver,      \* daemon.GraphDriverName()
    autoRestart,        \* daemon.configStore.AutoRestart
    dirIdx,             \* next entry of dir the load loop reads
    loaded,             \* per directory: outcome of the load loop
    ctr,                \* the container objects
    nameIndex,          \* daemon.nameIndex: name -> id
    store,              \* daemon.containers
    idIndex,            \* daemon.idIndex
    regResult,          \* per container: outcome of the registration loop
    supervision,        \* per container: outcome of the first pass' restore
    pass1Done,          \* first-pass workers that returned
    restartContainers,  \* keys of the restartContainers map
    migrateLegacyLinks, \* the flag of the same name
    dbOpens,            \* how often the legacy link database was opened
    linksDone,          \* containers the link loop has handled
    linkIndex,          \* daemon.linkIndex: <<parent, alias, child>>
    wpc,                \* per restart worker: its position
    todo,               \* per restart worker: children still to visit
    cur,                \* per restart worker: the child it selects on
    timer,              \* per restart worker: state of time.After
    closed,             \* notifier channels that are closed
    started,            \* containers containerStart was called for
    mounts,             \* per container: calls of prepareMountPoints
    rpc,                \* per caller of reserveName: its position
    rname,              \* per caller: the name it asked for
    rid,                \* per caller: the id it reserves the name for
    rres,               \* per caller: what reserveName returned
    rowner,             \* per caller: the owner its Conflict error names
    released,           \* whether releaseName has been called
    gref,               \* the reference last passed to GetContainer
    gres,               \* what that GetContainer call returned
    net,                \* per container: keys of NetworkSettings.Networks
    nop,                \* the network operation in flight
    call,               \* the last call that only reads, and its result
    configStore,        \* daemon.configStore
    discoveryWatcher,   \* daemon.discoveryWatcher
    rlres,              \* the configuration last reloaded, and the result
    xenv,               \* the XDG environment variables
    xfs,                \* the directories that hold the file searched for
    xres,               \* what SearchConfigPath returned
    boot,               \* NewDaemon after restore: position, flag, result
    prog,               \* writeDistributionProgress and its channel
    gen                 \* generateNewName: position, attempts, result

restoreVars ==
    << pc, err, fault, currentDriver, autoRestart, dirIdx, loaded, ctr,
       store, idIndex, regResult, supervision, pass1Done, restartContainers,
       migrateLegacyLinks, dbOpens, linksDone, linkIndex, wpc, todo, cur,
       timer, closed, started, mounts >>
cfgVars == << currentDriver, autoRestart >>
loadVars == << dirIdx, loaded >>
regVars == << store, idIndex, regResult >>
pass1Vars == << supervision, pass1Done, restartContainers, migrateLegacyLinks >>
linkVars == << dbOpens, linksDone, linkIndex >>
workerVars == << wpc, todo, cur, timer, closed, started >>
callerVars == << rpc, rname, rid, rres, rowner, released >>
getVars == << gref, gres >>
netVars == << net, nop, call >>
reloadVars == << configStore, discoveryWatcher, rlres >>
xdgVars == << xenv, xfs, xres >>
lateVars == << boot, prog, gen >>
moreVars == << netVars, reloadVars, xdgVars, lateVars >>
vars == << restoreVars, nameIndex, callerVars, getVars, moreVars >>

\* ------------------------------------------------------------------------
\* pkg/registrar: a name -> key map guarded by one mutex
\* ------------------------------------------------------------------------
\* Registrar.Reserve fails with ErrNameReserved when another key holds name
ReserveFails(idx, name, key) == name \in DOMAIN idx /\ idx[name] # key
ReserveResult(idx, name, key) ==
    IF name \in DOMAIN idx THEN idx ELSE idx @@ (name :> key)
\* Registrar.Release
ReleaseResult(idx, name) == [n \in DOMAIN idx \ {name} |-> idx[n]]

\* ------------------------------------------------------------------------
\* restore: the load loop (daemon.go 113-143)
\* ------------------------------------------------------------------------
\* the containers map of restore
containers == {id \in IDs : loaded[id] = "ok"}

\* Where restore's main goroutine stands.  pc names the block it is in; the
\* loop or wait it has reached inside the block follows from the work done.
\* a main goroutine that goes on as soon as one first-pass worker is done
PhaseWithoutWait ==
    CASE pc = "register" ->
            IF \E c \in containers : regResult[c] = "none" THEN "register"
            ELSE IF pass1Done = {} /\ containers # {} THEN "pass1"
            ELSE "linkdb"
      [] pc = "links" ->
            IF linksDone # containers THEN "links"
            ELSE IF \E c \in restartContainers : wpc[c] # "done" THEN "restart"
            ELSE "mounts"
      [] OTHER -> pc

Phase ==
    CASE pc = "register" ->
            IF \E c \in containers : regResult[c] = "none" THEN "register"
            ELSE IF pass1Done # containers THEN "pass1"
            ELSE "linkdb"
      [] pc = "links" ->
            IF linksDone # containers THEN "links"
            ELSE IF \E c \in restartContainers : wpc[c] # "done" THEN "restart"
            ELSE "mounts"
      [] OTHER -> pc

\* what a container directory may deserialize to.  Paused implies Running;
\* restore never reads the restart policy of a running container, so one
\* policy stands for all of them there.  OnDisk keeps the state as it was
\* persisted, for the record: no action reads or changes it.
PersistedContainers ==
    { c \in
        { [ Name |-> n, Driver |-> d, Running |-> run, Paused |-> pau,
            RemovalInProgress |-> rip, Dead |-> FALSE, Restart |-> rp,
            Restarting |-> FALSE,
            HostConfig |-> hc, RWLayer |-> FALSE,
            OnDisk |-> [Running |-> run, Paused |-> pau,
                        RemovalInProgress |-> rip, Dead |-> FALSE] ] :
          n \in PersistedNames, d \in Drivers, run \in BOOLEAN,
          pau \in BOOLEAN, rip \in BOOLEAN, rp \in RestartProfiles,
          hc \in HostConfigs } :
        /\ c.Paused => c.Running
        /\ c.Running => c.Restart = AlwaysRestart }

\* a driver test without the default for containers that record no driver
DriverCompatibleStrict(driver, current) == driver = current

\* (container.Driver == "" && currentDriver == "aufs") || container.Driver == currentDriver
DriverCompatible(driver, current) ==
    (driver = "" /\ current = "aufs") \/ driver = current

ReadDir ==
    /\ pc = "readdir"
    /\ \/ /\ pc' = "done"
          /\ err' = "ReadDir"
          /\ fault' = "ReadDir"
          /\ UNCHANGED dirIdx
       \/ /\ pc' = "load"
          /\ dirIdx' = 1
          /\ UNCHANGED << err, fault >>
    /\ UNCHANGED << cfgVars, loaded, ctr, regVars, pass1Vars, linkVars,
                    workerVars, mounts, nameIndex, callerVars, getVars,
                    moreVars >>

\* a load loop that keeps a container whose GetRWLayer failed
LoadedOutcomeKeepingLayerless(id, c, layerOK) ==
    IF DriverCompatible(c.Driver, currentDriver)
    THEN /\ loaded' = [loaded EXCEPT ![id] = "ok"]
         /\ ctr' = [ctr EXCEPT ![id] = [c EXCEPT !.RWLayer = layerOK]]
    ELSE /\ loaded' = [loaded EXCEPT ![id] = "driverskip"]
         /\ ctr' = [ctr EXCEPT ![id] = [NoContainer EXCEPT !.Driver = c.Driver]]

\* daemon.load returned a container: the driver check and GetRWLayer
LoadedOutcome(id, c, layerOK) ==
    IF DriverCompatible(c.Driver, currentDriver)
    THEN IF ~layerOK
         THEN /\ loaded' = [loaded EXCEPT ![id] = "layerfail"]
              /\ ctr' = [ctr EXCEPT ![id] = [NoContainer EXCEPT !.Driver = c.Driver]]
         ELSE /\ loaded' = [loaded EXCEPT ![id] = "ok"]
              /\ ctr' = [ctr EXCEPT ![id] = [c EXCEPT !.RWLayer = TRUE]]
    ELSE /\ loaded' = [loaded EXCEPT ![id] = "driverskip"]
         /\ ctr' = [ctr EXCEPT ![id] = [NoContainer EXCEPT !.Driver = c.Driver]]

\* a load loop that returns the error of daemon.load instead of continuing
LoadOutcomeAborting(id, c, loadOK, layerOK) ==
    /\ dirIdx' = dirIdx + 1
    /\ IF ~loadOK
       THEN /\ pc' = "done"
            /\ err' = "load"
            /\ loaded' = [loaded EXCEPT ![id] = "loadfail"]
            /\ UNCHANGED << fault, ctr >>
       ELSE /\ pc' = IF dirIdx = NumContainers THEN "register" ELSE "load"
            /\ UNCHANGED << err, fault >>
            /\ LoadedOutcome(id, c, layerOK)

\* one iteration of "for _, v := range dir"
LoadOutcome(id, c, loadOK, layerOK) ==
    /\ dirIdx' = dirIdx + 1
    /\ pc' = IF dirIdx = NumContainers THEN "register" ELSE "load"
    /\ UNCHANGED << err, fault >>
    /\ IF ~loadOK
       THEN /\ loaded' = [loaded EXCEPT ![id] = "loadfail"]
            /\ UNCHANGED ctr
       ELSE LoadedOutcome(id, c, layerOK)

Load ==
    /\ pc = "load"
    /\ dirIdx \in IDs
    /\ \E c \in PersistedContainers, loadOK \in BOOLEAN, layerOK \in BOOLEAN :
          /\ c.Name \in NamesOf(dirIdx)
          /\ LoadOutcome(dirIdx, c, loadOK, layerOK)
    /\ UNCHANGED << cfgVars, regVars, pass1Vars, linkVars,
                    workerVars, mounts, nameIndex, callerVars, getVars,
                    moreVars >>

\* ------------------------------------------------------------------------
\* restore: the registration loop (daemon.go 147-156)
\* ------------------------------------------------------------------------
\* daemon.registerName: reserve the container's name for its id
registerNameFails(c) == ReserveFails(nameIndex, ctr[c].Name, c)

\* a registration loop that returns the error of registerName or Register
RegisterOutcomeFatal(c, registerOK) ==
    /\ UNCHANGED fault
    /\ IF registerNameFails(c)
       THEN /\ regResult' = [regResult EXCEPT ![c] = "registerName"]
            /\ pc' = "done"
            /\ err' = "registerName"
            /\ UNCHANGED << nameIndex, store, idIndex >>
       ELSE /\ nameIndex' = ReserveResult(nameIndex, ctr[c].Name, c)
            /\ IF ~registerOK
               THEN /\ regResult' = [regResult EXCEPT ![c] = "Register"]
                    /\ pc' = "done"
                    /\ err' = "Register"
                    /\ UNCHANGED << store, idIndex >>
               ELSE /\ regResult' = [regResult EXCEPT ![c] = "ok"]
                    /\ store' = store \cup {c}
                    /\ idIndex' = idIndex \cup {c}
                    /\ UNCHANGED << pc, err >>

\* one iteration of "for _, c := range containers": registerName, Register
RegisterOutcome(c, registerOK) ==
    /\ UNCHANGED << pc, err, fault >>
    /\ IF registerNameFails(c)
       THEN /\ regResult' = [regResult EXCEPT ![c] = "registerName"]
            /\ UNCHANGED << nameIndex, store, idIndex >>
       ELSE /\ nameIndex' = ReserveResult(nameIndex, ctr[c].Name, c)
            /\ IF ~registerOK
               THEN /\ regResult' = [regResult EXCEPT ![c] = "Register"]
                    /\ UNCHANGED << store, idIndex >>
               ELSE /\ regResult' = [regResult EXCEPT ![c] = "ok"]
                    /\ store' = store \cup {c}
                    /\ idIndex' = idIndex \cup {c}

RegisterLoop ==
    /\ Phase = "register"
    /\ \E c \in containers :
          /\ regResult[c] = "none"
          /\ \E registerOK \in BOOLEAN : RegisterOutcome(c, registerOK)
    /\ UNCHANGED << cfgVars, loadVars, ctr, pass1Vars, linkVars,
                    workerVars, mounts, callerVars, getVars,
                    moreVars >>

\* ------------------------------------------------------------------------
\* restore: the first pass, one goroutine per container (daemon.go 159-204)
\* ------------------------------------------------------------------------
\* Container.ShouldRestart: what the restart policy says after the last exit
PolicySaysRestart(r) ==
    \/ r.Policy = "always"
    \/ /\ r.Policy = "on-failure"
       /\ r.ExitCode # 0
       /\ (r.MaximumRetryCount = 0 \/ r.RestartCount < r.MaximumRetryCount)
ShouldRestart(c) == PolicySaysRestart(ctr[c].Restart)

IsRunning(c) == ctr[c].Running
IsPaused(c) == ctr[c].Paused

\* the restart test without the container's restart policy
NeedsRestartIgnoringPolicy(c) ==
    autoRestart /\ ~IsRunning(c) /\ ~IsPaused(c)

\* the restart test without the daemon's AutoRestart setting
NeedsRestartIgnoringAutoRestart(c) ==
    ~IsRunning(c) /\ ~IsPaused(c) /\ ShouldRestart(c)

\* daemon.configStore.AutoRestart && !c.IsRunning() && !c.IsPaused() && c.ShouldRestart()
NeedsRestart(c) ==
    autoRestart /\ ~IsRunning(c) /\ ~IsPaused(c) /\ ShouldRestart(c)

\* c.HostConfig != nil && c.HostConfig.Links == nil
NeedsMigration(c) == ctr[c].HostConfig # "nil" /\ ctr[c].HostConfig = "legacy"

\* the part of the worker after the supervision restore (daemon.go 175-201)
FirstPassTail(c) ==
    /\ restartContainers' =
          IF NeedsRestart(c) THEN restartContainers \cup {c} ELSE restartContainers
    /\ ctr' = IF ctr[c].RemovalInProgress
              THEN [ctr EXCEPT ![c].RemovalInProgress = FALSE, ![c].Dead = TRUE]
              ELSE ctr
    /\ migrateLegacyLinks' = (migrateLegacyLinks \/ NeedsMigration(c))

\* a first pass that a failed supervision restore brings to its end for
\* every container
FirstPassOutcomeStopping(c, sup) ==
    /\ UNCHANGED << pc, err, fault >>
    /\ IF (IsRunning(c) \/ IsPaused(c)) /\ sup # "ok"
       THEN /\ supervision' = [supervision EXCEPT ![c] = sup]
            /\ pass1Done' = containers
            /\ UNCHANGED << ctr, restartContainers, migrateLegacyLinks >>
       ELSE /\ supervision' =
                 [supervision EXCEPT ![c] =
                     IF IsRunning(c) \/ IsPaused(c) THEN "ok" ELSE "none"]
            /\ pass1Done' = pass1Done \cup {c}
            /\ FirstPassTail(c)

\* the whole worker; sup is the outcome of ReinitRWLayer and containerd.Restore
FirstPassOutcome(c, sup) ==
    /\ UNCHANGED << pc, err, fault >>
    /\ pass1Done' = pass1Done \cup {c}
    /\ IF (IsRunning(c) \/ IsPaused(c)) /\ sup # "ok"
       THEN /\ supervision' = [supervision EXCEPT ![c] = sup]
            /\ UNCHANGED << ctr, restartContainers, migrateLegacyLinks >>
       ELSE /\ supervision' =
                 [supervision EXCEPT ![c] =
                     IF IsRunning(c) \/ IsPaused(c) THEN "ok" ELSE "none"]
            /\ FirstPassTail(c)

FirstPass ==
    /\ Phase = "pass1"
    /\ \E c \in containers \ pass1Done :
          \E sup \in {"ReinitRWLayer", "containerd.Restore", "ok"} :
             FirstPassOutcome(c, sup)
    /\ UNCHANGED << cfgVars, loadVars, regVars, linkVars,
                    workerVars, mounts, nameIndex, callerVars, getVars,
                    moreVars >>

\* ------------------------------------------------------------------------
\* restore: legacy link migration and link registration (daemon.go 206-227)
\* ------------------------------------------------------------------------
\* graphdb.NewSqliteConn, called only when migrateLegacyLinks is set
OpenLegacyDB ==
    /\ Phase = "linkdb"
    /\ IF migrateLegacyLinks
       THEN /\ dbOpens' = dbOpens + 1
            /\ \/ /\ pc' = "links"
                  /\ UNCHANGED << err, fault >>
               \/ /\ pc' = "done"
                  /\ err' = "NewSqliteConn"
                  /\ fault' = "NewSqliteConn"
       ELSE /\ pc' = "links"
            /\ UNCHANGED << dbOpens, err, fault >>
    /\ UNCHANGED << cfgVars, loadVars, ctr, regVars, pass1Vars,
                    linksDone, linkIndex, workerVars, mounts, nameIndex,
                    callerVars, getVars,
                    moreVars >>

\* the links a host config may declare: a list of registered containers,
\* the position in the list standing for the alias
LinkSets(c) ==
    UNION { { {<<a, f[a]>> : a \in 1..k} : f \in [1..k -> store \ {c}] } :
            k \in 0..NumAliases }

\* daemon.registerLinks(c, c.HostConfig)
registerLinks(c, ls, linksOK) ==
    IF ctr[c].HostConfig = "nil"
    THEN UNCHANGED linkIndex
    ELSE IF ~linksOK
    THEN UNCHANGED linkIndex
    ELSE linkIndex' = linkIndex \cup {<<c, l[1], l[2]>> : l \in ls}

\* a link loop that logs a failed migration and goes on
LinkOutcomeTolerant(c, migrateOK, ls, linksOK) ==
    /\ fault' = IF migrateLegacyLinks /\ ctr[c].HostConfig = "legacy" /\ ~migrateOK
                THEN "migrateLegacySqliteLinks"
                ELSE fault
    /\ ctr' = IF migrateLegacyLinks /\ ctr[c].HostConfig = "legacy" /\ migrateOK
              THEN [ctr EXCEPT ![c].HostConfig = "links"]
              ELSE ctr
    /\ registerLinks(c, ls, linksOK)
    /\ linksDone' = linksDone \cup {c}
    /\ UNCHANGED << pc, err >>

\* one iteration of the link loop: migrate, then register the links
LinkOutcome(c, migrateOK, ls, linksOK) ==
    IF migrateLegacyLinks /\ ctr[c].HostConfig = "legacy" /\ ~migrateOK
    THEN /\ pc' = "done"
         /\ err' = "migrateLegacySqliteLinks"
         /\ fault' = "migrateLegacySqliteLinks"
         /\ UNCHANGED << ctr, linkIndex, linksDone >>
    ELSE /\ ctr' = IF migrateLegacyLinks /\ ctr[c].HostConfig = "legacy"
                   THEN [ctr EXCEPT ![c].HostConfig = "links"]
                   ELSE ctr
         /\ registerLinks(c, ls, linksOK)
         /\ linksDone' = linksDone \cup {c}
         /\ UNCHANGED << pc, err, fault >>

LinkLoop ==
    /\ Phase = "links"
    /\ \E c \in containers \ linksDone :
          \E migrateOK \in BOOLEAN, ls \in LinkSets(c), linksOK \in BOOLEAN :
             LinkOutcome(c, migrateOK, ls, linksOK)
    /\ UNCHANGED << cfgVars, loadVars, regVars, pass1Vars, dbOpens,
                    workerVars, mounts, nameIndex, callerVars, getVars,
                    moreVars >>

\* ------------------------------------------------------------------------
\* restore: the restart pass, one goroutine per container of
\* restartContainers (daemon.go 229-260)
\* ------------------------------------------------------------------------
\* daemon.children(c): alias -> child, from the link index
children(c) == {<<l[2], l[3]>> : l \in {x \in linkIndex : x[1] = c}}

\* children := daemon.children(c); timeout := time.After(5 * time.Second)
WorkerBegin(c) ==
    /\ Phase = "restart"
    /\ c \in restartContainers
    /\ wpc[c] = "idle"
    /\ wpc' = [wpc EXCEPT ![c] = "loop"]
    /\ todo' = [todo EXCEPT ![c] = children(c)]
    /\ timer' = [timer EXCEPT ![c] = "pending"]
    /\ UNCHANGED << pc, err, fault, cfgVars, loadVars, ctr, regVars,
                    pass1Vars, linkVars, cur, closed, started, mounts,
                    nameIndex, callerVars, getVars,
                    moreVars >>

\* a worker that walks over its children without waiting for any
WorkerNextChildNoWait(c) ==
    /\ wpc[c] = "loop"
    /\ \E l \in todo[c] : todo' = [todo EXCEPT ![c] = @ \ {l}]
    /\ UNCHANGED << pc, err, fault, cfgVars, loadVars, ctr, regVars,
                    pass1Vars, linkVars, wpc, cur, timer, closed, started,
                    mounts, nameIndex, callerVars, getVars,
                    moreVars >>

\* for _, child := range children: the next child, in map order;
\* if notifier, exists := restartContainers[child]; exists { select ... }
WorkerNextChild(c) ==
    /\ wpc[c] = "loop"
    /\ \E l \in todo[c] :
          /\ todo' = [todo EXCEPT ![c] = @ \ {l}]
          /\ IF l[2] \in restartContainers
             THEN /\ wpc' = [wpc EXCEPT ![c] = "select"]
                  /\ cur' = [cur EXCEPT ![c] = {l[2]}]
             ELSE UNCHANGED << wpc, cur >>
    /\ UNCHANGED << pc, err, fault, cfgVars, loadVars, ctr, regVars,
                    pass1Vars, linkVars, timer, closed, started, mounts,
                    nameIndex, callerVars, getVars,
                    moreVars >>

\* select { case <-notifier: case <-timeout: }
WorkerSelect(c) ==
    /\ wpc[c] = "select"
    /\ \/ /\ cur[c] \subseteq closed
          /\ UNCHANGED timer
       \/ /\ timer[c] = "fired"
          /\ timer' = [timer EXCEPT ![c] = "consumed"]
    /\ wpc' = [wpc EXCEPT ![c] = "loop"]
    /\ cur' = [cur EXCEPT ![c] = {}]
    /\ UNCHANGED << pc, err, fault, cfgVars, loadVars, ctr, regVars,
                    pass1Vars, linkVars, todo, closed, started, mounts,
                    nameIndex, callerVars, getVars,
                    moreVars >>

\* the runtime delivers the one value of time.After's channel
TimerFire(c) ==
    /\ timer[c] = "pending"
    /\ wpc[c] \in {"loop", "select"}
    /\ timer' = [timer EXCEPT ![c] = "fired"]
    /\ UNCHANGED << pc, err, fault, cfgVars, loadVars, ctr, regVars,
                    pass1Vars, linkVars, wpc, todo, cur, closed, started,
                    mounts, nameIndex, callerVars, getVars,
                    moreVars >>

\* daemon.containerStart refuses a container marked for removal or dead
containerStartFails(c, startOK) ==
    ctr[c].RemovalInProgress \/ ctr[c].Dead \/ ~startOK

\* a worker that returns without close(chNotify) when the start failed
WorkerStartNoCloseOnFailure(c) ==
    /\ wpc[c] = "loop"
    /\ todo[c] = {}
    /\ started' = started \cup {c}
    /\ \E startOK \in BOOLEAN :
          IF containerStartFails(c, startOK)
          THEN /\ wpc' = [wpc EXCEPT ![c] = "done"]
               /\ UNCHANGED ctr
          ELSE /\ wpc' = [wpc EXCEPT ![c] = "close"]
               /\ ctr' = [ctr EXCEPT ![c].Running = TRUE]
    /\ UNCHANGED << pc, err, fault, cfgVars, loadVars, regVars, pass1Vars,
                    linkVars, todo, cur, timer, closed, mounts, nameIndex,
                    callerVars, getVars, moreVars >>

\* daemon.waitForNetworks(c); daemon.containerStart(c)
WorkerStart(c) ==
    /\ wpc[c] = "loop"
    /\ todo[c] = {}
    /\ started' = started \cup {c}
    /\ \E startOK \in BOOLEAN :
          IF containerStartFails(c, startOK)
          THEN UNCHANGED ctr
          ELSE ctr' = [ctr EXCEPT ![c].Running = TRUE]
    /\ wpc' = [wpc EXCEPT ![c] = "close"]
    /\ UNCHANGED << pc, err, fault, cfgVars, loadVars, regVars, pass1Vars,
                    linkVars, todo, cur, timer, closed, mounts, nameIndex,
                    callerVars, getVars,
                    moreVars >>

\* close(chNotify)
WorkerClose(c) ==
    /\ wpc[c] = "close"
    /\ closed' = closed \cup {c}
    /\ wpc' = [wpc EXCEPT ![c] = "done"]
    /\ UNCHANGED << pc, err, fault, cfgVars, loadVars, ctr, regVars,
                    pass1Vars, linkVars, todo, cur, timer, started, mounts,
                    nameIndex, callerVars, getVars,
                    moreVars >>

\* ------------------------------------------------------------------------
\* restore: mount points of the containers not restarted (daemon.go 267-293)
\* ------------------------------------------------------------------------
\* a mount pass that does not look at the restart set
SkipsMountsNever(c) == FALSE

\* if _, ok := restartContainers[c]; ok { continue }
SkipsMounts(c) == c \in restartContainers

\* the goroutines of the last loop, group.Wait() and "return nil": the
\* goroutines share no state, so the loop is taken as one step
PrepareMounts ==
    /\ Phase = "mounts"
    /\ mounts' = [c \in IDs |->
                     IF c \in containers /\ ~SkipsMounts(c)
                     THEN mounts[c] + 1 ELSE mounts[c]]
    /\ pc' = "done"
    /\ err' = "nil"
    /\ UNCHANGED << fault, cfgVars, loadVars, ctr, regVars, pass1Vars,
                    linkVars, workerVars, nameIndex, callerVars, getVars,
                    moreVars >>

\* what GetContainer returns: a container or an error
NoResult == [kind |-> "none", c |-> {}]

\* no network operation in flight, and no call whose result is unread
NoOp ==
    [kind |-> "none", c |-> 1, n |-> "", pc |-> "done", res |-> "none",
     before |-> {}, seen |-> {}, mutated |-> FALSE, saved |-> {},
     logged |-> FALSE]
NoCall == [fn |-> "none", c |-> 1, kind |-> "none", out |-> {}]

\* the zero Config, the nil discovery watcher, and no Reload so far
NoConfig ==
    [set |-> {}, Labels |-> {}, Debug |-> FALSE,
     MaxConcurrentDownloads |-> "nil", MaxConcurrentUploads |-> "nil",
     ClusterStore |-> "", ClusterAdvertise |-> "", ClusterOpts |-> {}]
NoWatcher ==
    [state |-> "nil", store |-> "", advertise |-> "", opts |-> {}]
NoReload == [n |-> 0, res |-> "none", config |-> NoConfig,
             before |-> NoConfig, watcher |-> NoWatcher]

\* no XDG variable set, and no search so far
NoEnv == [XDG_CONFIG_HOME |-> << >>, XDG_CONFIG_DIRS |-> << >>]
NoPath == [kind |-> "none", path |-> << >>]

\* NewDaemon before restore has returned; no progress written; no name
\* generated
NoBoot ==
    [pc |-> "restore", shutdown |-> FALSE, seen |-> {}, returned |-> "none",
     err |-> "none", shutdownErr |-> "none"]
NoProgress ==
    [sent |-> 0, queued |-> << >>, closed |-> FALSE, consumed |-> 0,
     failed |-> 0, cancels |-> 0, operationCancelled |-> FALSE,
     cur |-> 0, pc |-> "idle"]
NoName ==
    [pc |-> "idle", i |-> 0, attempts |-> 0, name |-> << >>,
     err |-> "none"]

\* ------------------------------------------------------------------------
\* The daemon before restore runs (NewDaemon, daemon.go 494-516)
\* ------------------------------------------------------------------------
InitCommon ==
    /\ err = "none"
    /\ fault = "none"
    /\ dirIdx = 1
    /\ loaded = [id \in IDs |-> "pending"]
    /\ ctr = [id \in IDs |-> NoContainer]
    /\ nameIndex = << >>
    /\ store = {}
    /\ idIndex = {}
    /\ regResult = [id \in IDs |-> "none"]
    /\ supervision = [id \in IDs |-> "none"]
    /\ pass1Done = {}
    /\ restartContainers = {}
    /\ migrateLegacyLinks = FALSE
    /\ dbOpens = 0
    /\ linksDone = {}
    /\ linkIndex = {}
    /\ wpc = [id \in IDs |-> "idle"]
    /\ todo = [id \in IDs |-> {}]
    /\ cur = [id \in IDs |-> {}]
    /\ timer = [id \in IDs |-> "unset"]
    /\ closed = {}
    /\ started = {}
    /\ mounts = [id \in IDs |-> 0]
    /\ rpc = [p \in Callers |-> "idle"]
    /\ rname = [p \in Callers |-> << >>]
    /\ rid = [p \in Callers |-> 1]
    /\ rres = [p \in Callers |-> "none"]
    /\ rowner = [p \in Callers |-> {}]
    /\ released = FALSE
    /\ gref = << >>
    /\ gres = NoResult
    /\ net = [id \in IDs |-> {}]
    /\ nop = NoOp
    /\ call = NoCall
    /\ configStore = NoConfig
    /\ discoveryWatcher = NoWatcher
    /\ rlres = NoReload
    /\ xenv = NoEnv
    /\ xfs = {}
    /\ xres = NoPath
    /\ boot = NoBoot
    /\ prog = NoProgress
    /\ gen = NoName

Init ==
    /\ InitCommon
    /\ pc = "readdir"
    /\ currentDriver \in CurrentDrivers
    /\ autoRestart \in BOOLEAN

Next ==
    \/ ReadDir
    \/ Load
    \/ RegisterLoop
    \/ FirstPass
    \/ OpenLegacyDB
    \/ LinkLoop
    \/ \E c \in IDs : WorkerBegin(c)
    \/ \E c \in IDs : WorkerNextChild(c)
    \/ \E c \in IDs : WorkerSelect(c)
    \/ \E c \in IDs : TimerFire(c)
    \/ \E c \in IDs : WorkerStart(c)
    \/ \E c \in IDs : WorkerClose(c)
    \/ PrepareMounts

Spec == Init /\ [][Next]_vars

\* ------------------------------------------------------------------------
\* Daemon.reserveName and Daemon.releaseName, called concurrently once the
\* daemon serves requests
\* ------------------------------------------------------------------------
\* reserveName is entered: the pattern check and the leading slash
ReserveNameCall(p) ==
    /\ rpc[p] = "idle"
    /\ \E name \in CallerNames, id \in Callers :
          /\ rid' = [rid EXCEPT ![p] = id]
          /\ IF ~MatchString(name)
             THEN /\ rres' = [rres EXCEPT ![p] = "invalid"]
                  /\ rpc' = [rpc EXCEPT ![p] = "done"]
                  /\ UNCHANGED rname
             ELSE /\ rname' = [rname EXCEPT ![p] = WithSlash(name)]
                  /\ rpc' = [rpc EXCEPT ![p] = "reserve"]
                  /\ UNCHANGED rres
    /\ UNCHANGED << restoreVars, getVars, moreVars, nameIndex, rowner, released >>

\* daemon.nameIndex.Reserve(name, id), one critical section of the registrar
ReserveNameReserve(p) ==
    /\ rpc[p] = "reserve"
    /\ IF ReserveFails(nameIndex, rname[p], rid[p])
       THEN /\ rpc' = [rpc EXCEPT ![p] = "get"]
            /\ UNCHANGED << nameIndex, rres >>
       ELSE /\ nameIndex' = ReserveResult(nameIndex, rname[p], rid[p])
            /\ rres' = [rres EXCEPT ![p] = "ok"]
            /\ rpc' = [rpc EXCEPT ![p] = "done"]
    /\ UNCHANGED << restoreVars, getVars, moreVars, rname, rid, rowner, released >>

\* a Conflict error that names the caller's id, not the id Get returned
ReserveNameGetOwnID(p) ==
    /\ rpc[p] = "get"
    /\ IF rname[p] \in DOMAIN nameIndex
       THEN /\ rres' = [rres EXCEPT ![p] = "Conflict"]
            /\ rowner' = [rowner EXCEPT ![p] = {rid[p]}]
       ELSE /\ rres' = [rres EXCEPT ![p] = "ErrNoSuchKey"]
            /\ UNCHANGED rowner
    /\ rpc' = [rpc EXCEPT ![p] = "done"]
    /\ UNCHANGED << restoreVars, getVars, moreVars, nameIndex, rname, rid, released >>

\* err == registrar.ErrNameReserved: daemon.nameIndex.Get(name), a second
\* critical section, then the Conflict error naming the id it found
ReserveNameGet(p) ==
    /\ rpc[p] = "get"
    /\ IF rname[p] \in DOMAIN nameIndex
       THEN /\ rres' = [rres EXCEPT ![p] = "Conflict"]
            /\ rowner' = [rowner EXCEPT ![p] = {nameIndex[rname[p]]}]
       ELSE /\ rres' = [rres EXCEPT ![p] = "ErrNoSuchKey"]
            /\ UNCHANGED rowner
    /\ rpc' = [rpc EXCEPT ![p] = "done"]
    /\ UNCHANGED << restoreVars, getVars, moreVars, nameIndex, rname, rid, released >>

\* a releaseName that leaves the name with the registrar
ReleaseNameKeepingName(p) ==
    /\ rpc[p] = "done"
    /\ rres[p] = "ok"
    /\ rpc' = [rpc EXCEPT ![p] = "released"]
    /\ released' = TRUE
    /\ UNCHANGED << restoreVars, getVars, moreVars, nameIndex, rname, rid,
                    rres, rowner >>

\* daemon.releaseName(name), by the caller that holds the name
ReleaseName(p) ==
    /\ rpc[p] = "done"
    /\ rres[p] = "ok"
    /\ nameIndex' = ReleaseResult(nameIndex, rname[p])
    /\ rpc' = [rpc EXCEPT ![p] = "released"]
    /\ released' = TRUE
    /\ UNCHANGED << restoreVars, getVars, moreVars, rname, rid, rres, rowner >>

\* the daemon after a restore of an empty repository
InitNames ==
    /\ InitCommon
    /\ pc = "done"
    /\ currentDriver = "aufs"
    /\ autoRestart = TRUE

NextNames ==
    \/ \E p \in Callers : ReserveNameCall(p)
    \/ \E p \in Callers : ReserveNameReserve(p)
    \/ \E p \in Callers : ReserveNameGet(p)
    \/ \E p \in Callers : ReleaseName(p)

SpecNames == InitNames /\ [][NextNames]_vars


\* ------------------------------------------------------------------------
\* Daemon.GetContainer over the store, the name registrar and the id index,
\* set up as TestGetContainer does.  Here a container id is its full id
\* string.
\* ------------------------------------------------------------------------
HexChars == {"a", "b"}
\* the full ids containers may have
FullIDs == [1..IDLen -> HexChars]
\* the names the stored containers may carry
StoredNames == UNION { [1..k -> HexChars] : k \in 2..IDLen }
\* the references GetContainer is asked for
Refs == UNION { [1..k -> HexChars] : k \in 1..IDLen }

IsPrefix(pre, str) == Len(pre) <= Len(str) /\ SubSeq(str, 1, Len(pre)) = pre

\* store.Add(c.ID, c); index.Add(c.ID); daemon.reserveName(c.ID, c.Name),
\* whose error the test drops
StoreAddSkippingIndex(id, name) ==
    /\ id \notin store
    /\ store' = store \cup {id}
    /\ UNCHANGED idIndex
    /\ nameIndex' = IF MatchString(name)
                    THEN ReserveResult(nameIndex, WithSlash(name), id)
                    ELSE nameIndex

\* store.Add(c.ID, c); index.Add(c.ID); daemon.reserveName(c.ID, c.Name),
\* whose error the test drops
StoreAdd(id, name) ==
    /\ id \notin store
    /\ store' = store \cup {id}
    /\ idIndex' = idIndex \cup {id}
    /\ nameIndex' = IF MatchString(name)
                    THEN ReserveResult(nameIndex, WithSlash(name), id)
                    ELSE nameIndex

\* the test fills the store before its first lookup
AddContainer ==
    /\ gres = NoResult
    /\ Cardinality(store) < MaxStored
    /\ \E id \in FullIDs, name \in StoredNames : StoreAdd(id, name)
    /\ UNCHANGED << pc, err, fault, cfgVars, loadVars, ctr, regResult,
                    pass1Vars, linkVars, workerVars, mounts, callerVars,
                    getVars, moreVars >>

\* Daemon.GetByName: the registrar's key of the name, then the store
GetByName(name) ==
    LET fullName == WithSlash(name)
    IN  IF fullName \in DOMAIN nameIndex /\ nameIndex[fullName] \in store
        THEN {nameIndex[fullName]}
        ELSE {}

\* TruncIndex.Get: the one id that starts with the prefix
TruncIndexGet(prefix) ==
    LET found == { id \in idIndex : IsPrefix(prefix, id) }
    IN  IF found = {} THEN [kind |-> "NotFound", c |-> {}]
        ELSE IF Cardinality(found) > 1 THEN [kind |-> "Ambiguous", c |-> {}]
        ELSE [kind |-> "ok", c |-> found]

\* a lookup that tries the id prefix before the name and the exact id
GetContainerPrefixFirst(ref) ==
    IF TruncIndexGet(ref).kind # "NotFound" THEN TruncIndexGet(ref)
    ELSE IF GetByName(ref) # {} THEN [kind |-> "ok", c |-> GetByName(ref)]
    ELSE IF ref \in store THEN [kind |-> "ok", c |-> {ref}]
    ELSE TruncIndexGet(ref)

\* a lookup that tries the name before the exact id
GetContainerNameFirst(ref) ==
    IF GetByName(ref) # {} THEN [kind |-> "ok", c |-> GetByName(ref)]
    ELSE IF ref \in store THEN [kind |-> "ok", c |-> {ref}]
    ELSE IF TruncIndexGet(ref).kind = "ok"
         THEN [kind |-> "ok", c |-> TruncIndexGet(ref).c \cap store]
         ELSE TruncIndexGet(ref)

\* Daemon.GetContainer: exact id, then name, then id prefix
GetContainer(ref) ==
    IF ref \in store THEN [kind |-> "ok", c |-> {ref}]
    ELSE IF GetByName(ref) # {} THEN [kind |-> "ok", c |-> GetByName(ref)]
    ELSE IF TruncIndexGet(ref).kind = "ok"
         THEN [kind |-> "ok", c |-> TruncIndexGet(ref).c \cap store]
         ELSE TruncIndexGet(ref)

\* one call of daemon.GetContainer by the test
GetContainerCall ==
    /\ \E ref \in Refs :
          /\ gref' = ref
          /\ gres' = GetContainer(ref)
    /\ UNCHANGED << restoreVars, nameIndex, callerVars, moreVars >>

InitGet == InitNames

NextGet ==
    \/ AddContainer
    \/ GetContainerCall

SpecGet == InitGet /\ [][NextGet]_vars

\* ------------------------------------------------------------------------
\* Containers run with --restart=on-failure:N (TestRunRestartMaxRetries):
\* the restart manager at runtime, and restore's restart test after a
\* restart of the daemon
\* ------------------------------------------------------------------------
\* docker run -d --restart=on-failure:N
RunOnFailure ==
    [NoContainer EXCEPT !.Running = TRUE, !.RWLayer = TRUE,
                        !.HostConfig = "links",
                        !.Restart = OnFailure(0, 0)]

\* the container is created and started
RunContainer(c) ==
    /\ ctr[c] = NoContainer
    /\ ctr' = [ctr EXCEPT ![c] = RunOnFailure]
    /\ UNCHANGED << pc, err, fault, cfgVars, loadVars, regVars, pass1Vars,
                    linkVars, workerVars, mounts, nameIndex, callerVars,
                    getVars, moreVars >>

\* the daemon boots with the container on disk, stopped after a non-zero
\* exit that no restart manager handled, some restarts counted
LoadStopped(c) ==
    /\ ctr[c] = NoContainer
    /\ \E count \in 0..RetryLimit :
          ctr' = [ctr EXCEPT ![c] =
                     [RunOnFailure EXCEPT !.Running = FALSE,
                                          !.Restart = OnFailure(1, count)]]
    /\ loaded' = [loaded EXCEPT ![c] = "ok"]
    /\ UNCHANGED << pc, err, fault, cfgVars, dirIdx, regVars, pass1Vars,
                    linkVars, workerVars, mounts, nameIndex, callerVars,
                    getVars, moreVars >>

\* neither running nor waiting to be restarted
AtRest(c) == ~ctr[c].Running /\ ~ctr[c].Restarting

\* the container's process exits; the restart manager counts a restart and
\* schedules it if the policy says so
ContainerExit(c) ==
    /\ ctr[c].Running
    /\ \E code \in {0, 1} :
          LET r == [ctr[c].Restart EXCEPT !.ExitCode = code]
          IN  ctr' = [ctr EXCEPT
                  ![c].Running = FALSE,
                  ![c].Restarting = PolicySaysRestart(r),
                  ![c].Restart =
                      IF PolicySaysRestart(r)
                      THEN [r EXCEPT !.RestartCount = @ + 1]
                      ELSE r]
    /\ UNCHANGED << pc, err, fault, cfgVars, loadVars, regVars, pass1Vars,
                    linkVars, workerVars, mounts, nameIndex, callerVars,
                    getVars, moreVars >>

\* the restart manager starts the container again
RestartManagerStart(c) ==
    /\ ctr[c].Restarting
    /\ ctr' = [ctr EXCEPT ![c].Running = TRUE, ![c].Restarting = FALSE]
    /\ UNCHANGED << pc, err, fault, cfgVars, loadVars, regVars, pass1Vars,
                    linkVars, workerVars, mounts, nameIndex, callerVars,
                    getVars, moreVars >>

\* the daemon was restarted while the container was at rest: restore's
\* restart test and, for a container that passes it, containerStart
RestoreStart(c) ==
    /\ AtRest(c)
    /\ NeedsRestart(c)
    /\ restartContainers' = restartContainers \cup {c}
    /\ started' = started \cup {c}
    /\ ctr' = [ctr EXCEPT ![c].Running = TRUE]
    /\ UNCHANGED << pc, err, fault, cfgVars, loadVars, regVars, supervision,
                    pass1Done, migrateLegacyLinks, linkVars, wpc, todo, cur,
                    timer, closed, mounts, nameIndex, callerVars, getVars,
                    moreVars >>

InitRetry ==
    /\ InitCommon
    /\ pc = "done"
    /\ currentDriver = "aufs"
    /\ autoRestart \in BOOLEAN

NextRetry ==
    \/ \E c \in IDs : RunContainer(c)
    \/ \E c \in IDs : LoadStopped(c)
    \/ \E c \in IDs : ContainerExit(c)
    \/ \E c \in IDs : RestartManagerStart(c)
    \/ \E c \in IDs : RestoreStart(c)

SpecRetry == InitRetry /\ [][NextRetry]_vars

\* ------------------------------------------------------------------------
\* Network operations, links and IPC of the containers of a daemon that
\* serves requests (container_network_operations_unix.go).  The callers
\* hold a pointer to the container; none of the functions takes its lock.
\* ------------------------------------------------------------------------
\* runconfig.DefaultDaemonNetworkMode().NetworkName(), and one other network
DefaultNetwork == "bridge"
Networks == {DefaultNetwork, "other"}

\* a network is referred to by its name or by its id; FindNetwork resolves
\* either, and Name is the name of the network found.  One network's id is
\* enough to tell the two kinds of reference apart.
OtherID == "id-of-other"
NetworkRefs == Networks \cup {OtherID}
Name(idOrName) == IF idOrName = OtherID THEN "other" ELSE idOrName


\* no call is waiting for its caller to read the result
Quiet == call = NoCall

\* the state fields the network operations test, as they are now
StateFlags(c) ==
    {f \in {"Running", "RemovalInProgress", "Dead"} : ctr[c][f]}

\* a container is created, stopped and attached to some networks
ContainerCreate(c) ==
    /\ Quiet
    /\ c \notin store
    /\ ctr[c] = NoContainer
    /\ \E nets \in SUBSET Networks : net' = [net EXCEPT ![c] = nets]
    /\ ctr' = [ctr EXCEPT ![c] = [NoContainer EXCEPT !.Name = NameA,
                                     !.HostConfig = "links",
                                     !.RWLayer = TRUE]]
    /\ store' = store \cup {c}
    /\ UNCHANGED << pc, err, fault, cfgVars, loadVars, idIndex, regResult,
                    pass1Vars, linkVars, workerVars, mounts, nameIndex,
                    callerVars, lateVars, getVars, nop, call, reloadVars, xdgVars >>

\* a link from parent to child is registered under the first alias
LinkCreate(parent, child) ==
    /\ Quiet
    /\ parent # child
    /\ {parent, child} \subseteq store
    /\ <<parent, 1, child>> \notin linkIndex
    /\ linkIndex' = linkIndex \cup {<<parent, 1, child>>}
    /\ UNCHANGED << pc, err, fault, cfgVars, loadVars, ctr, regVars,
                    pass1Vars, dbOpens, linksDone, workerVars, mounts,
                    nameIndex, callerVars, lateVars, getVars, netVars, reloadVars,
                    xdgVars >>

\* the container is started, also by its restart manager
ContainerStart(c) ==
    /\ Quiet
    /\ c \in store
    /\ ~ctr[c].Running \/ ctr[c].Restarting
    /\ ~ctr[c].RemovalInProgress /\ ~ctr[c].Dead
    /\ ctr' = [ctr EXCEPT ![c].Running = TRUE, ![c].Restarting = FALSE]
    /\ UNCHANGED << pc, err, fault, cfgVars, loadVars, regVars, pass1Vars,
                    linkVars, workerVars, mounts, nameIndex, callerVars, lateVars,
                    getVars, netVars, reloadVars, xdgVars >>

\* the container's process exits: it stops, or waits to be restarted
ContainerDie(c) ==
    /\ Quiet
    /\ ctr[c].Running /\ ~ctr[c].Restarting
    /\ \E restarting \in BOOLEAN :
          ctr' = [ctr EXCEPT ![c].Running = restarting,
                             ![c].Restarting = restarting]
    /\ UNCHANGED << pc, err, fault, cfgVars, loadVars, regVars, pass1Vars,
                    linkVars, workerVars, mounts, nameIndex, callerVars, lateVars,
                    getVars, netVars, reloadVars, xdgVars >>

\* removal of a stopped container: marked first, then dead and forgotten
ContainerRemove(c) ==
    /\ Quiet
    /\ c \in store
    /\ ~ctr[c].Running
    /\ IF ~ctr[c].RemovalInProgress
       THEN /\ ctr' = [ctr EXCEPT ![c].RemovalInProgress = TRUE]
            /\ UNCHANGED store
       ELSE /\ ctr' = [ctr EXCEPT ![c].Dead = TRUE]
            /\ store' = store \ {c}
    /\ UNCHANGED << pc, err, fault, cfgVars, loadVars, idIndex, regResult,
                    pass1Vars, linkVars, workerVars, mounts, nameIndex,
                    callerVars, lateVars, getVars, netVars, reloadVars, xdgVars >>

\* what an operation that ended before any change leaves behind
Ended(op, res) == [op EXCEPT !.pc = "done", !.res = res]

\* a connect that does not look at RemovalInProgress and Dead
ConnectToNetworkIgnoringRemoval(c, n) ==
    /\ Quiet
    /\ nop = NoOp
    /\ c \in store
    /\ LET op == [NoOp EXCEPT !.kind = "connect", !.c = c, !.n = n,
                              !.before = net[c]]
       IN  IF ~ctr[c].Running
           THEN /\ \E ok \in BOOLEAN :
                      nop' = IF ok THEN [op EXCEPT !.pc = "mutate"]
                             ELSE Ended(op, "error")
                /\ UNCHANGED net
           ELSE \E ok \in BOOLEAN :
                   IF ok
                   THEN /\ net' = [net EXCEPT ![c] = @ \cup {Name(n)}]
                        /\ nop' = [op EXCEPT !.pc = "todisk",
                                             !.mutated = TRUE]
                   ELSE /\ nop' = Ended(op, "error")
                        /\ UNCHANGED net
    /\ UNCHANGED << restoreVars, getVars, nameIndex, callerVars, lateVars, call,
                    reloadVars, xdgVars >>

\* ConnectToNetwork up to the change of the stopped container's settings:
\* the tests of Running, RemovalInProgress and Dead, updateNetworkConfig,
\* or, for a running container, all of connectToNetwork
ConnectToNetwork(c, n) ==
    /\ Quiet
    /\ nop = NoOp
    /\ c \in store
    /\ LET op == [NoOp EXCEPT !.kind = "connect", !.c = c, !.n = n,
                              !.before = net[c]]
       IN  IF ~ctr[c].Running
           THEN /\ IF ctr[c].RemovalInProgress \/ ctr[c].Dead
                   THEN nop' = Ended(op, "errRemovalContainer")
                   ELSE \E ok \in BOOLEAN :
                           nop' = IF ok THEN [op EXCEPT !.pc = "mutate"]
                                  ELSE Ended(op, "error")
                /\ UNCHANGED net
           ELSE \E ok \in BOOLEAN :
                   IF ok
                   THEN /\ net' = [net EXCEPT ![c] = @ \cup {Name(n)}]
                        /\ nop' = [op EXCEPT !.pc = "todisk",
                                             !.mutated = TRUE]
                   ELSE /\ nop' = Ended(op, "error")
                        /\ UNCHANGED net
    /\ UNCHANGED << restoreVars, getVars, nameIndex, callerVars, lateVars, call,
                    reloadVars, xdgVars >>

\* DisconnectFromNetwork up to the change of the stopped container's
\* settings; isHost: the container and the network are both in host mode
DisconnectFromNetwork(c, n) ==
    /\ Quiet
    /\ nop = NoOp
    /\ c \in store
    /\ LET op == [NoOp EXCEPT !.kind = "disconnect", !.c = c, !.n = n,
                              !.before = net[c]]
       IN  \E isHost \in BOOLEAN :
           IF isHost
           THEN /\ nop' = Ended(op, "ErrConflictHostNetwork")
                /\ UNCHANGED net
           ELSE IF ~ctr[c].Running
           THEN /\ nop' = IF ctr[c].RemovalInProgress \/ ctr[c].Dead
                          THEN Ended(op, "errRemovalContainer")
                          ELSE [op EXCEPT !.pc = "mutate"]
                /\ UNCHANGED net
           ELSE \E ok \in BOOLEAN :
                   IF ok
                   THEN /\ net' = [net EXCEPT ![c] = @ \ {n}]
                        /\ nop' = [op EXCEPT !.pc = "todisk",
                                             !.mutated = TRUE]
                   ELSE /\ nop' = Ended(op, "error")
                        /\ UNCHANGED net
    /\ UNCHANGED << restoreVars, getVars, nameIndex, callerVars, lateVars, call,
                    reloadVars, xdgVars >>

\* the change of the stopped container's settings: the assignment to
\* Networks[idOrName], or the delete of a network that is there.  seen
\* keeps the state fields that are set while the settings change.
NetworkSettingsChange ==
    /\ Quiet
    /\ nop.pc = "mutate"
    /\ LET c == nop.c
           op == [nop EXCEPT !.seen = StateFlags(c)]
       IN  IF nop.kind = "connect"
           THEN /\ net' = [net EXCEPT ![c] = @ \cup {nop.n}]
                /\ nop' = [op EXCEPT !.pc = "todisk", !.mutated = TRUE]
           ELSE IF nop.n \in net[c]
           THEN /\ net' = [net EXCEPT ![c] = @ \ {nop.n}]
                /\ nop' = [op EXCEPT !.pc = "todisk", !.mutated = TRUE]
           ELSE /\ nop' = Ended(op, "not connected")
                /\ UNCHANGED net
    /\ UNCHANGED << restoreVars, getVars, nameIndex, callerVars, lateVars, call,
                    reloadVars, xdgVars >>

\* a write that undoes the change of the settings when it fails
ToDiskOutcomeRollingBack(ok) ==
    IF ok
    THEN [net |-> net, saved |-> {net[nop.c]}, res |-> "nil"]
    ELSE [net |-> [net EXCEPT ![nop.c] = nop.before], saved |-> {},
          res |-> "Error saving container to disk"]

\* container.ToDiskLocking() and the error made of its failure: the
\* settings in memory stay as they are either way.  saved holds the
\* networks the write put on disk.
ToDiskOutcome(ok) ==
    IF ok
    THEN [net |-> net, saved |-> {net[nop.c]}, res |-> "nil"]
    ELSE [net |-> net, saved |-> {},
          res |-> "Error saving container to disk"]

\* the end of both operations: the container is saved, and a disconnect
\* that was saved logs its network event
ToDisk ==
    /\ Quiet
    /\ nop.pc = "todisk"
    /\ \E ok \in BOOLEAN :
          /\ net' = ToDiskOutcome(ok).net
          /\ nop' = [nop EXCEPT !.pc = "done",
                                !.res = ToDiskOutcome(ok).res,
                                !.saved = ToDiskOutcome(ok).saved,
                                !.logged = ok /\ nop.kind = "disconnect"]
    /\ UNCHANGED << restoreVars, getVars, nameIndex, callerVars, lateVars, call,
                    reloadVars, xdgVars >>

\* the caller has the operation's error
NetworkReturn ==
    /\ nop.kind # "none"
    /\ nop.pc = "done"
    /\ nop' = NoOp
    /\ UNCHANGED << restoreVars, getVars, nameIndex, callerVars, lateVars, net, call, reloadVars, xdgVars >>

\* container.NetworkSettings.Networks[DefaultNetwork] != nil
OnBridge(c) == DefaultNetwork \in net[c]

\* Daemon.setupLinkedContainers: nil for a container off the default
\* bridge; an error for a child that is stopped or off the bridge; else the
\* environment of every link, held here as the link's alias
setupLinkedContainers(c) ==
    IF ~OnBridge(c) THEN [kind |-> "nil", out |-> {}]
    ELSE IF \E l \in children(c) : ~IsRunning(l[2]) \/ ~OnBridge(l[2])
    THEN [kind |-> "error", out |-> {}]
    ELSE [kind |-> "env", out |-> {l[1] : l \in children(c)}]

\* one call of setupLinkedContainers
SetupLinkedContainersCall(c) ==
    /\ Quiet
    /\ nop = NoOp
    /\ c \in store
    /\ call' = [fn |-> "setupLinkedContainers", c |-> c,
                kind |-> setupLinkedContainers(c).kind,
                out |-> setupLinkedContainers(c).out]
    /\ UNCHANGED << restoreVars, getVars, nameIndex, callerVars, lateVars, net, nop, reloadVars, xdgVars >>

\* getIpcContainer without the test of IsRestarting
getIpcContainerIgnoringRestart(target) ==
    IF target \notin store THEN [kind |-> "No such container", out |-> {}]
    ELSE IF ~IsRunning(target) THEN [kind |-> "not running", out |-> {}]
    ELSE [kind |-> "ok", out |-> {target}]

\* Daemon.getIpcContainer for a container whose IpcMode names target by
\* its full id: the lookup, IsRunning, IsRestarting
getIpcContainer(target) ==
    IF target \notin store THEN [kind |-> "No such container", out |-> {}]
    ELSE IF ~IsRunning(target) THEN [kind |-> "not running", out |-> {}]
    ELSE IF ctr[target].Restarting
    THEN [kind |-> "errContainerIsRestarting", out |-> {}]
    ELSE [kind |-> "ok", out |-> {target}]

\* one call of getIpcContainer
GetIpcContainerCall(target) ==
    /\ Quiet
    /\ nop = NoOp
    /\ call' = [fn |-> "getIpcContainer", c |-> target,
                kind |-> getIpcContainer(target).kind,
                out |-> getIpcContainer(target).out]
    /\ UNCHANGED << restoreVars, getVars, nameIndex, callerVars, lateVars, net, nop, reloadVars, xdgVars >>

\* the caller has the result of the call
CallReturn ==
    /\ ~Quiet
    /\ call' = NoCall
    /\ UNCHANGED << restoreVars, getVars, nameIndex, callerVars, lateVars, net, nop, reloadVars, xdgVars >>

InitNet == InitNames

NextNet ==
    \/ \E c \in IDs : ContainerCreate(c)
    \/ \E p, c \in IDs : LinkCreate(p, c)
    \/ \E c \in IDs : ContainerStart(c)
    \/ \E c \in IDs : ContainerDie(c)
    \/ \E c \in IDs : ContainerRemove(c)
    \/ \E c \in IDs, n \in Networks : ConnectToNetwork(c, n)
    \/ \E c \in IDs, n \in Networks : DisconnectFromNetwork(c, n)
    \/ NetworkSettingsChange
    \/ ToDisk
    \/ NetworkReturn
    \/ \E c \in IDs : SetupLinkedContainersCall(c)
    \/ \E c \in IDs : GetIpcContainerCall(c)
    \/ CallReturn

SpecNet == InitNet /\ [][NextNet]_vars

\* ------------------------------------------------------------------------
\* The network operations called with either kind of reference: connect
\* takes the reference as the caller gave it, disconnect takes the network.

InitConnect == InitNames

NextConnect ==
    \/ \E c \in IDs : ContainerCreate(c)
    \/ \E c \in IDs : ContainerStart(c)
    \/ \E c \in IDs : ContainerDie(c)
    \/ \E c \in IDs : ContainerRemove(c)
    \/ \E c \in IDs, idOrName \in NetworkRefs : ConnectToNetwork(c, idOrName)
    \/ \E c \in IDs, n \in Networks : DisconnectFromNetwork(c, n)
    \/ NetworkSettingsChange
    \/ ToDisk
    \/ NetworkReturn

SpecConnect == InitConnect /\ [][NextConnect]_vars

\* ------------------------------------------------------------------------
\* Daemon.Reload and reloadClusterDiscovery (daemon.go 832-927), on a daemon
\* built with or without cluster discovery
\* ------------------------------------------------------------------------
\* the flags the reloaded configuration files mark as set; none of them
\* sets max-concurrent-uploads
Keys ==
    {"labels", "debug", "max-concurrent-downloads", "cluster-store",
     "cluster-advertise", "cluster-store-opts"}

\* the values of the daemon's configuration and of the one reloaded
LabelsOld == {"foo:bar"}
LabelsNew == {"foo:baz"}
StoreOld == "memory://127.0.0.1"
StoreNew == "memory://127.0.0.1:2222"
AdvertiseOld == "127.0.0.1:3333"
AdvertiseNew == "127.0.0.1:5555"
OptsOld == {"kv.path=old"}
OptsNew == {"kv.path=new"}

\* config.IsValueSet(key)
IsValueSet(config, key) == key \in config.set

\* the configurations Reload is called with: a flag that is not set has its
\* zero value; cluster-advertise may be set to the empty address
ConfigValues ==
    { [set |-> ks,
       Labels |-> IF "labels" \in ks THEN LabelsNew ELSE {},
       Debug |-> d,
       MaxConcurrentDownloads |->
          IF "max-concurrent-downloads" \in ks THEN "custom" ELSE "nil",
       MaxConcurrentUploads |->
          IF "max-concurrent-uploads" \in ks THEN "custom" ELSE "nil",
       ClusterStore |-> IF "cluster-store" \in ks THEN StoreNew ELSE "",
       ClusterAdvertise |-> a,
       ClusterOpts |-> IF "cluster-store-opts" \in ks THEN OptsNew ELSE {}] :
      ks \in SUBSET Keys, d \in BOOLEAN, a \in {"", AdvertiseNew} }
ReloadConfigs ==
    { config \in ConfigValues :
         /\ IsValueSet(config, "debug") \/ ~config.Debug
         /\ IsValueSet(config, "cluster-advertise")
               \/ config.ClusterAdvertise = "" }

\* parseClusterAdvertiseSettings(clusterStore, clusterAdvertise): discovery
\* is disabled without an address; an address may fail to resolve
parseClusterAdvertiseSettings(clusterStore, clusterAdvertise, ok) ==
    IF clusterAdvertise = ""
    THEN [err |-> "errDiscoveryDisabled", advertise |-> ""]
    ELSE IF ~ok THEN [err |-> "error", advertise |-> ""]
    ELSE [err |-> "nil", advertise |-> clusterAdvertise]

\* a discovery watcher that initDiscovery or Reload set up
Watching(clusterStore, advertise, clusterOpts) ==
    [state |-> "running", store |-> clusterStore, advertise |-> advertise,
     opts |-> clusterOpts]

\* NewDaemon: the configuration becomes the daemon's, and
\* daemon.initDiscovery(config) sets discovery up unless it is disabled
NewDaemon ==
    /\ configStore = NoConfig
    /\ \E debug, parseOK \in BOOLEAN, clusterStore \in {"", StoreOld},
          clusterAdvertise \in {"", AdvertiseOld},
          clusterOpts \in {{}, OptsOld},
          downloads \in {"default", "custom"} :
          LET parsed == parseClusterAdvertiseSettings(
                            clusterStore, clusterAdvertise, parseOK)
          IN  /\ parsed.err # "error"
              /\ configStore' =
                    [set |-> {}, Labels |-> LabelsOld, Debug |-> debug,
                     MaxConcurrentDownloads |-> downloads,
                     MaxConcurrentUploads |-> "custom",
                     ClusterStore |-> clusterStore,
                     ClusterAdvertise |-> parsed.advertise,
                     ClusterOpts |-> clusterOpts]
              /\ discoveryWatcher' =
                    IF parsed.err = "errDiscoveryDisabled" THEN NoWatcher
                    ELSE Watching(clusterStore, parsed.advertise, clusterOpts)
    /\ UNCHANGED << restoreVars, getVars, nameIndex, callerVars, lateVars, netVars,
                    rlres, xdgVars >>

\* modifiedDiscoverySettings: whether the store, the advertise address or
\* the options differ from the configuration's
modifiedDiscoverySettings(cs, advertise, clusterStore, clusterOpts) ==
    \/ cs.ClusterStore # clusterStore
    \/ cs.ClusterAdvertise # advertise
    \/ cs.ClusterOpts # clusterOpts

\* Reload up to the call of reloadClusterDiscovery: labels and debug when
\* they are set, the concurrency limits always
ReloadedValues(cs, config) ==
    [cs EXCEPT
       !.Labels = IF IsValueSet(config, "labels") THEN config.Labels ELSE @,
       !.Debug = IF IsValueSet(config, "debug") THEN config.Debug ELSE @,
       !.MaxConcurrentDownloads =
          IF /\ IsValueSet(config, "max-concurrent-downloads")
             /\ config.MaxConcurrentDownloads # "nil"
          THEN config.MaxConcurrentDownloads ELSE "default",
       !.MaxConcurrentUploads =
          IF /\ IsValueSet(config, "max-concurrent-uploads")
             /\ config.MaxConcurrentUploads # "nil"
          THEN config.MaxConcurrentUploads ELSE "default"]

\* daemon.reloadClusterDiscovery(config) on configuration cs and watcher w;
\* parseOK and discoveryOK are the outcomes of the address parse and of
\* initDiscovery or discoveryWatcher.Reload
reloadClusterDiscovery(cs, w, config, parseOK, discoveryOK) ==
    LET advertiseSet == IsValueSet(config, "cluster-advertise")
        newClusterStore ==
            IF advertiseSet /\ IsValueSet(config, "cluster-store")
            THEN config.ClusterStore ELSE cs.ClusterStore
        parsed == parseClusterAdvertiseSettings(
                      newClusterStore, config.ClusterAdvertise, parseOK)
        parseErr == IF advertiseSet THEN parsed.err ELSE "nil"
        newAdvertise ==
            IF advertiseSet THEN parsed.advertise ELSE cs.ClusterAdvertise
        updated == [cs EXCEPT !.ClusterStore = newClusterStore,
                              !.ClusterOpts = config.ClusterOpts,
                              !.ClusterAdvertise = newAdvertise]
    IN  IF parseErr = "error"
        THEN [cs |-> cs, w |-> w, res |-> "error"]
        ELSE IF ~modifiedDiscoverySettings(cs, newAdvertise, newClusterStore,
                                           config.ClusterOpts)
        THEN [cs |-> cs, w |-> w, res |-> "nil"]
        ELSE IF w.state = "nil"
        THEN IF discoveryOK
             THEN [cs |-> updated,
                   w |-> Watching(newClusterStore, newAdvertise,
                                  config.ClusterOpts),
                   res |-> "nil"]
             ELSE [cs |-> cs, w |-> w,
                   res |-> "discovery initialization failed"]
        ELSE IF parseErr = "errDiscoveryDisabled"
        THEN [cs |-> updated, w |-> [w EXCEPT !.state = "stopped"],
              res |-> "nil"]
        ELSE IF discoveryOK
        THEN [cs |-> updated,
              w |-> Watching(config.ClusterStore, newAdvertise,
                             config.ClusterOpts),
              res |-> "nil"]
        ELSE [cs |-> cs, w |-> w, res |-> "error"]

\* Daemon.Reload(config), under the configuration's reload lock
Reload ==
    /\ configStore # NoConfig
    /\ rlres.n < MaxReloads
    /\ \E config \in ReloadConfigs, parseOK, discoveryOK \in BOOLEAN :
          LET out == reloadClusterDiscovery(
                         ReloadedValues(configStore, config),
                         discoveryWatcher, config, parseOK, discoveryOK)
          IN  /\ configStore' = out.cs
              /\ discoveryWatcher' = out.w
              /\ rlres' = [n |-> rlres.n + 1, res |-> out.res,
                           config |-> config, before |-> configStore,
                           watcher |-> discoveryWatcher]
    /\ UNCHANGED << restoreVars, getVars, nameIndex, callerVars, lateVars, netVars,
                    xdgVars >>

InitReload == InitNames

NextReload ==
    \/ NewDaemon
    \/ Reload

SpecReload == InitReload /\ [][NextReload]_vars

\* ------------------------------------------------------------------------
\* Package xdg: SearchConfigPath (xdg.go).  A path is the sequence of its
\* elements, "/" the first of an absolute one, the empty sequence the empty
\* string; XDG_CONFIG_DIRS is the sequence of its colon-separated entries.
\* ------------------------------------------------------------------------
Folder1 == <<"/", "folder1">>
Folder2 == <<"/", "folder2">>
Relative == <<"folder1">>
\* the defaults of the unix build
DefaultConfigHome == <<"/", "home", ".config">>
DefaultConfigsHome == << <<"/", "etc", "xdg">> >>
\* the file the test searches for
XdgFile == "xdgfile"

\* path.IsAbs, filepath.Join(folder, name)
IsAbs(p) == Len(p) > 0 /\ p[1] = "/"
Join(folder, name) == folder \o <<name>>

\* the values the test gives the two variables
EnvPaths == {<< >>, Relative, Folder1, Folder2}
Envs ==
    [XDG_CONFIG_HOME : EnvPaths,
     XDG_CONFIG_DIRS : UNION { [1..k -> EnvPaths] : k \in 0..MaxDirs }]
\* the directories the test may put the file in
Folders ==
    {Relative, Folder1, Folder2, DefaultConfigHome, DefaultConfigsHome[1]}

\* strings.Split(os.Getenv(name), ":"): the empty string has one entry
Split(entries) == IF entries = << >> THEN << << >> >> ELSE entries

\* xdgPath(name, defaultPath)
xdgPath(dir, defaultPath) ==
    IF dir # << >> /\ IsAbs(dir) THEN dir ELSE defaultPath

\* p != "" && path.IsAbs(p)
KeptEntry(p) == p # << >> /\ IsAbs(p)

\* xdgPaths with the home directory after the others
xdgPathsHomeLast(entries, homePath, defaultPaths) ==
    LET kept == SelectSeq(Split(entries), KeptEntry)
        dirs == IF Len(kept) = 0 THEN defaultPaths ELSE kept
    IN  IF homePath # << >> THEN dirs \o <<homePath>> ELSE dirs

\* xdgPaths(name, homePath, defaultPaths)
xdgPaths(entries, homePath, defaultPaths) ==
    LET kept == SelectSeq(Split(entries), KeptEntry)
        dirs == IF Len(kept) = 0 THEN defaultPaths ELSE kept
    IN  IF homePath # << >> THEN <<homePath>> \o dirs ELSE dirs

\* exists(p): os.Stat finds the file
exists(p) == p \in xfs

\* SearchConfigPath(name)
SearchConfigPath(name) ==
    LET xdgConfigDir == xdgPath(xenv.XDG_CONFIG_HOME, DefaultConfigHome)
        xdgConfigDirs ==
            xdgPaths(xenv.XDG_CONFIG_DIRS, xdgConfigDir, DefaultConfigsHome)
        found == {i \in 1..Len(xdgConfigDirs) :
                     exists(Join(xdgConfigDirs[i], name))}
    IN  IF found = {}
        THEN [kind |-> "error", path |-> << >>]
        ELSE LET first == CHOOSE i \in found : \A j \in found : i <= j
             IN  [kind |-> "nil", path |-> Join(xdgConfigDirs[first], name)]

\* setEnvs: the test sets both variables
Setenvs ==
    /\ xres = NoPath
    /\ xenv' \in Envs
    /\ UNCHANGED << restoreVars, getVars, nameIndex, callerVars, lateVars, netVars,
                    reloadVars, xfs, xres >>

\* ioutil.WriteFile: the test puts the file in a directory
WriteFile ==
    /\ xres = NoPath
    /\ \E folder \in Folders : xfs' = xfs \cup {Join(folder, XdgFile)}
    /\ UNCHANGED << restoreVars, getVars, nameIndex, callerVars, lateVars, netVars,
                    reloadVars, xenv, xres >>

\* one call of SearchConfigPath
SearchConfigPathCall ==
    /\ xres = NoPath
    /\ xres' = SearchConfigPath(XdgFile)
    /\ UNCHANGED << restoreVars, getVars, nameIndex, callerVars, lateVars, netVars,
                    reloadVars, xenv, xfs >>

InitXdg == InitNames

NextXdg ==
    \/ Setenvs
    \/ WriteFile
    \/ SearchConfigPathCall

SpecXdg == InitXdg /\ [][NextXdg]_vars

\* ------------------------------------------------------------------------
\* writeDistributionProgress and the operation that sends it progress.
\* prog.queued is progressChan; the operation sends its messages, numbered
\* from 1, and closes the channel when it ends, cancelled or not.

\* the operation sends one more message
ProgressSend ==
    /\ ~prog.closed
    /\ prog.sent < MaxMessages
    /\ Len(prog.queued) < ChanCap
    /\ prog' = [prog EXCEPT !.sent = @ + 1,
                            !.queued = Append(@, prog.sent + 1)]
    /\ UNCHANGED << restoreVars, nameIndex, callerVars, getVars, netVars,
                    reloadVars, xdgVars, boot, gen >>

\* the operation ends and closes progressChan
ProgressClose ==
    /\ ~prog.closed
    /\ prog' = [prog EXCEPT !.closed = TRUE]
    /\ UNCHANGED << restoreVars, nameIndex, callerVars, getVars, netVars,
                    reloadVars, xdgVars, boot, gen >>

\* writeDistributionProgress is called: operationCancelled := false
writeDistributionProgress ==
    /\ prog.pc = "idle"
    /\ prog' = [prog EXCEPT !.pc = "range", !.operationCancelled = FALSE]
    /\ UNCHANGED << restoreVars, nameIndex, callerVars, getVars, netVars,
                    reloadVars, xdgVars, boot, gen >>

\* for prog := range progressChan: the next message, or the end of the
\* loop and of the function when the channel is closed and empty
ProgressRange ==
    /\ prog.pc = "range"
    /\ IF prog.queued # << >>
       THEN prog' = [prog EXCEPT !.cur = Head(prog.queued),
                                 !.queued = Tail(prog.queued),
                                 !.consumed = @ + 1,
                                 !.pc = "write"]
       ELSE /\ prog.closed
            /\ prog' = [prog EXCEPT !.pc = "done"]
    /\ UNCHANGED << restoreVars, nameIndex, callerVars, getVars, netVars,
                    reloadVars, xdgVars, boot, gen >>

\* a loop body that returns when the write to the client fails
WriteProgressReturning(ok) ==
    IF ok
    THEN [prog EXCEPT !.pc = "range"]
    ELSE [prog EXCEPT !.failed = @ + 1,
                      !.cancels = @ + 1,
                      !.operationCancelled = TRUE,
                      !.pc = "done"]

\* the loop body: WriteProgress(prog), and on its first error cancelFunc()
\* and operationCancelled = true; the loop goes on either way
WriteProgress(ok) ==
    IF ok
    THEN [prog EXCEPT !.pc = "range"]
    ELSE IF ~prog.operationCancelled
    THEN [prog EXCEPT !.failed = @ + 1,
                      !.cancels = @ + 1,
                      !.operationCancelled = TRUE,
                      !.pc = "range"]
    ELSE [prog EXCEPT !.failed = @ + 1, !.pc = "range"]

ProgressWrite ==
    /\ prog.pc = "write"
    /\ \E ok \in BOOLEAN : prog' = WriteProgress(ok)
    /\ UNCHANGED << restoreVars, nameIndex, callerVars, getVars, netVars,
                    reloadVars, xdgVars, boot, gen >>

InitProgress == InitNames

NextProgress ==
    \/ ProgressSend
    \/ ProgressClose
    \/ writeDistributionProgress
    \/ ProgressRange
    \/ ProgressWrite

SpecProgress == InitProgress /\ [][NextProgress]_vars

\* ------------------------------------------------------------------------
\* generateNewName(id) for a container that was given no name, next to the
\* reserveName and releaseName calls of other callers.

\* the id generateIDAndName has just drawn: no caller's id
NewID == NumCallers + 1

\* namesgenerator.GetRandomName may return any of its names at every try
GeneratedNames == {<<"a", "a">>, NameB}

\* stringid.TruncateID(id)
TruncateID == <<"a", "a", "a">>

\* the name of try i: a generated one, then the truncated id
TryNames(i) ==
    IF i < GeneratedTries THEN {WithSlash(n) : n \in GeneratedNames}
    ELSE {<<Slash>> \o TruncateID}

generateNewName ==
    /\ gen.pc = "idle"
    /\ gen' = [gen EXCEPT !.pc = "loop", !.i = 0]
    /\ UNCHANGED << restoreVars, nameIndex, callerVars, getVars, netVars,
                    reloadVars, xdgVars, boot, prog >>

\* a loop that goes on to the next try after a name was reserved
ReserveGeneratedNoStop(name, otherErr) ==
    IF otherErr
    THEN [gen |-> [gen EXCEPT !.pc = "done", !.err = "other",
                              !.attempts = @ + 1],
          idx |-> nameIndex]
    ELSE IF ReserveFails(nameIndex, name, NewID)
    THEN [gen |-> IF gen.i < GeneratedTries
                  THEN [gen EXCEPT !.i = @ + 1, !.attempts = @ + 1]
                  ELSE [gen EXCEPT !.pc = "done", !.err = "ErrNameReserved",
                                   !.attempts = @ + 1],
          idx |-> nameIndex]
    ELSE [gen |-> IF gen.i < GeneratedTries
                  THEN [gen EXCEPT !.i = @ + 1, !.attempts = @ + 1]
                  ELSE [gen EXCEPT !.pc = "done", !.err = "nil",
                                   !.name = name, !.attempts = @ + 1],
          idx |-> ReserveResult(nameIndex, name, NewID)]

\* one try: daemon.nameIndex.Reserve(name, id) and what the loop, or the
\* code after it, does with the error; otherErr is an error of Reserve
\* other than ErrNameReserved
ReserveGenerated(name, otherErr) ==
    IF otherErr
    THEN [gen |-> [gen EXCEPT !.pc = "done", !.err = "other",
                              !.attempts = @ + 1],
          idx |-> nameIndex]
    ELSE IF ReserveFails(nameIndex, name, NewID)
    THEN [gen |-> IF gen.i < GeneratedTries
                  THEN [gen EXCEPT !.i = @ + 1, !.attempts = @ + 1]
                  ELSE [gen EXCEPT !.pc = "done", !.err = "ErrNameReserved",
                                   !.attempts = @ + 1],
          idx |-> nameIndex]
    ELSE [gen |-> [gen EXCEPT !.pc = "done", !.err = "nil", !.name = name,
                              !.attempts = @ + 1],
          idx |-> ReserveResult(nameIndex, name, NewID)]

GenerateTry ==
    /\ gen.pc = "loop"
    /\ \E name \in TryNames(gen.i), otherErr \in BOOLEAN :
          /\ gen' = ReserveGenerated(name, otherErr).gen
          /\ nameIndex' = ReserveGenerated(name, otherErr).idx
    /\ UNCHANGED << restoreVars, callerVars, getVars, netVars,
                    reloadVars, xdgVars, boot, prog >>

InitGenerate == InitNames

NextGenerate ==
    \/ generateNewName
    \/ GenerateTry
    \/ \E p \in Callers : ReserveNameCall(p)
    \/ \E p \in Callers : ReserveNameReserve(p)
    \/ \E p \in Callers : ReserveNameGet(p)
    \/ \E p \in Callers : ReleaseName(p)

SpecGenerate == InitGenerate /\ [][NextGenerate]_vars

\* ------------------------------------------------------------------------
\* The end of NewDaemon: restore, the deferred Shutdown when it failed, and
\* the Shutdown of a daemon that was returned.

RestoreErrors == {"ReadDir", "NewSqliteConn", "migrateLegacySqliteLinks"}

\* a NewDaemon without the deferred function: the error is returned at once
AfterRestoreNoDefer(e) ==
    IF e = "nil"
    THEN [boot EXCEPT !.pc = "serving", !.returned = "daemon", !.err = e]
    ELSE [boot EXCEPT !.pc = "returned", !.returned = "nil", !.err = e]

\* if err := d.restore(); err != nil { return nil, err }; return d, nil.
\* The results are named, so with an error the deferred function calls
\* d.Shutdown() before NewDaemon returns.
AfterRestore(e) ==
    IF e = "nil"
    THEN [boot EXCEPT !.pc = "serving", !.returned = "daemon", !.err = e]
    ELSE [boot EXCEPT !.pc = "deferred", !.err = e]

\* restore returns e, having registered the containers of S, of which
\* those of R are running; nothing is registered when the repository
\* could not be read
NewDaemonRestore ==
    /\ boot.pc = "restore"
    /\ \E e \in RestoreErrors \cup {"nil"}, S \in SUBSET IDs :
          \E R \in SUBSET S :
             /\ e = "ReadDir" => S = {}
             /\ store' = S
             /\ ctr' = [c \in IDs |->
                          IF c \in S
                          THEN [NoContainer EXCEPT !.Name = NameA,
                                                   !.RWLayer = TRUE,
                                                   !.Running = c \in R]
                          ELSE NoContainer]
             /\ boot' = AfterRestore(e)
    /\ UNCHANGED << pc, err, fault, cfgVars, loadVars, idIndex, regResult,
                    pass1Vars, linkVars, workerVars, mounts, nameIndex,
                    callerVars, getVars, netVars, reloadVars, xdgVars,
                    prog, gen >>

\* Shutdown is called, by the deferred function of NewDaemon or for a
\* daemon that serves, and sets daemon.shutdown
Shutdown ==
    /\ boot.pc \in {"deferred", "serving"}
    /\ boot' = [boot EXCEPT !.pc = "containers", !.shutdown = TRUE]
    /\ UNCHANGED << restoreVars, nameIndex, callerVars, getVars, netVars,
                    reloadVars, xdgVars, prog, gen >>

\* the function ApplyAll runs for container c: a running container is
\* stopped, and an error of shutdownContainer is logged
ShutdownContainer(c) ==
    /\ boot.pc = "containers"
    /\ c \in store \ boot.seen
    /\ boot' = [boot EXCEPT !.seen = @ \cup {c}]
    /\ \E ok \in BOOLEAN :
          ctr' = IF ctr[c].Running /\ ok
                 THEN [ctr EXCEPT ![c].Running = FALSE]
                 ELSE ctr
    /\ UNCHANGED << pc, err, fault, cfgVars, loadVars, store, idIndex,
                    regResult, pass1Vars, linkVars, workerVars, mounts,
                    nameIndex, callerVars, getVars, netVars, reloadVars,
                    xdgVars, prog, gen >>

\* after ApplyAll: netController.Stop, layerStore.Cleanup, and
\* cleanupMounts, whose error is the error of Shutdown
ShutdownCleanup ==
    /\ boot.pc = "containers"
    /\ boot.seen = store
    /\ \E ok \in BOOLEAN :
          boot' = [boot EXCEPT !.pc = IF boot.returned = "daemon"
                                      THEN "stopped" ELSE "shutdownDone",
                              !.shutdownErr = IF ok THEN "nil"
                                              ELSE "cleanupMounts"]
    /\ UNCHANGED << restoreVars, nameIndex, callerVars, getVars, netVars,
                    reloadVars, xdgVars, prog, gen >>

\* the deferred function has logged the error of Shutdown, if any, and
\* NewDaemon returns nil and the error of restore
NewDaemonReturn ==
    /\ boot.pc = "shutdownDone"
    /\ boot' = [boot EXCEPT !.pc = "returned", !.returned = "nil"]
    /\ UNCHANGED << restoreVars, nameIndex, callerVars, getVars, netVars,
                    reloadVars, xdgVars, prog, gen >>

IsShuttingDown == boot.shutdown

InitBoot == InitNames

NextBoot ==
    \/ NewDaemonRestore
    \/ Shutdown
    \/ \E c \in IDs : ShutdownContainer(c)
    \/ ShutdownCleanup
    \/ NewDaemonReturn

SpecBoot == InitBoot /\ [][NextBoot]_vars

\* ========================================================================
\* Properties
\* ========================================================================
\* restore has returned
Returned == pc = "done"

\* C1: directories that fail to load do not abort restore.  Unless one of
\* the fatal failures (ReadDir, the legacy link database, a legacy
\* migration) occurred, restore returns nil; the load loop tries every
\* directory; and every container that loaded, matched the driver and got
\* its layer is offered for registration and, its name being free and
\* Register succeeding, ends in the name registrar and in the store.
C1_LoadFailureDoesNotAbort ==
    /\ (pc \in {"register", "links"} \/ (Returned /\ fault # "ReadDir")) =>
          \A id \in IDs : loaded[id] # "pending"
    /\ (Returned /\ fault = "none") =>
          /\ err = "nil"
          /\ \A id \in containers :
                /\ regResult[id] # "none"
                /\ regResult[id] = "ok" =>
                      /\ id \in store
                      /\ ctr[id].Name \in DOMAIN nameIndex
                      /\ nameIndex[ctr[id].Name] = id

\* C1 witness: restore returned nil with exactly one corrupt directory and
\* every other directory's container registered.
C1_Witness ==
    /\ Returned
    /\ err = "nil"
    /\ \E bad \in IDs :
          /\ loaded[bad] = "loadfail"
          /\ \A id \in IDs \ {bad} : loaded[id] = "ok" /\ id \in store

\* C2: restore returns an error exactly when ReadDir failed, the legacy
\* link database could not be opened (which is tried only when a migration
\* is required) or a legacy migration failed; the error is that failure's.
\* No failure of a single container's load, layer, registration,
\* supervision restore or start is among the causes.
C2_ErrorIffFatalFailure ==
    Returned =>
       /\ err \in {"nil", "ReadDir", "NewSqliteConn", "migrateLegacySqliteLinks"}
       /\ (err = "nil") <=> (fault = "none")
       /\ fault # "none" => err = fault
       /\ err \in {"NewSqliteConn", "migrateLegacySqliteLinks"} => migrateLegacyLinks

\* C2 witness: restore returned nil although a layer failed to attach, a
\* Register failed, a ReinitRWLayer failed and a containerStart failed.
C2_Witness ==
    /\ Returned
    /\ err = "nil"
    /\ \E a \in IDs, b \in IDs :
          /\ loaded[a] = "layerfail"
          /\ regResult[b] = "Register"
          /\ \/ supervision[b] = "ReinitRWLayer"
             \/ b \in started /\ ~ctr[b].Running

\* a set of restart workers each of which has used up its timeout and
\* selects on the notifier of a member of the set: none of them can move
BlockedForever(c) ==
    \E S \in SUBSET restartContainers :
       /\ c \in S
       /\ \A d \in S : wpc[d] = "select" /\ timer[d] = "consumed" /\ cur[d] \subseteq S

\* C3: no restart worker ever blocks forever on another one, whatever the
\* link graph among the restart containers.
C3_NoWorkerBlocksForever == \A c \in IDs : ~BlockedForever(c)

\* C4: containerStart(c) is called only after every child of c that is in
\* the restart set has closed its notifier or c's worker has received its
\* timeout.
C4_StartAfterChildrenOrTimeout ==
    \A c \in started :
       \A l \in children(c) :
          l[2] \in restartContainers => (l[2] \in closed \/ timer[c] = "consumed")

\* C4 witness: a container was started after a child of the restart set
\* closed its notifier, the parent's timeout not having fired.
C4_Witness ==
    \E c \in started :
       /\ timer[c] = "pending"
       /\ \E l \in children(c) : l[2] \in restartContainers /\ l[2] \in closed

\* C5: once a worker's timeout has fired, the worker does not block on a
\* child that has not signalled.
C5_NoWaitAfterTimeout ==
    \A c \in IDs :
       ~(wpc[c] = "select" /\ timer[c] = "consumed" /\ ~(cur[c] \subseteq closed))

\* C6: when restore returns, every loaded container persisted with
\* RemovalInProgress and not Dead has RemovalInProgress reset, is Dead, and
\* was neither put in the restart set nor passed to containerStart.
C6_RemovalResetAndNotStarted ==
    Returned =>
       \A c \in containers :
          (ctr[c].OnDisk.RemovalInProgress /\ ~ctr[c].OnDisk.Dead) =>
             /\ ~ctr[c].RemovalInProgress
             /\ ctr[c].Dead
             /\ c \notin restartContainers
             /\ c \notin started

\* C7: restore calls containerStart only for a container that was neither
\* running nor paused and whose restart policy says it should restart, and
\* only with AutoRestart enabled; never for a container of policy "no".
C7_StartOnlyIfEligible ==
    \A c \in started :
       /\ autoRestart
       /\ ~ctr[c].OnDisk.Running
       /\ ~ctr[c].OnDisk.Paused
       /\ ShouldRestart(c)
       /\ ctr[c].Restart.Policy # "no"

\* C7 witness: restore has started a stopped container of policy on-failure
\* that had exited non-zero.
C7_Witness ==
    \E c \in started :
       /\ ctr[c].Restart.Policy = "on-failure"
       /\ ctr[c].Running

\* C8: when restore returns, every id that owns a reserved name is in the
\* store and every container in the store owns a reserved name.
C8_RegistrarMatchesStore ==
    Returned =>
       /\ \A n \in DOMAIN nameIndex : nameIndex[n] \in store
       /\ \A c \in store : \E n \in DOMAIN nameIndex : nameIndex[n] = c

\* C9: no phase after the registration loop acts on a container whose
\* registerName or Register failed.
C9_UnregisteredContainerSkipped ==
    \A c \in IDs :
       regResult[c] \in {"registerName", "Register"} =>
          /\ c \notin pass1Done
          /\ c \notin restartContainers
          /\ c \notin linksDone
          /\ c \notin started
          /\ mounts[c] = 0

\* two callers that passed the same name for different ids, no third
\* caller having passed it, and no release so far
Contend(p, q) ==
    /\ p # q
    /\ rpc[p] = "done" /\ rres[p] # "invalid"
    /\ rpc[q] = "done" /\ rres[q] # "invalid"
    /\ rname[p] = rname[q]
    /\ rid[p] # rid[q]
    /\ \A r \in Callers \ {p, q} : rname[r] # rname[p]
    /\ ~released

\* C10: of two concurrent reserveName calls for one name and two ids, one
\* succeeds and the other gets the Conflict error naming the winner's id;
\* the name then maps to the winner's id.
C10_OneWinnerOneConflict ==
    \A p \in Callers, q \in Callers :
       Contend(p, q) =>
          \E w \in {p, q}, l \in {p, q} :
             /\ w # l
             /\ rres[w] = "ok"
             /\ rres[l] = "Conflict"
             /\ rowner[l] = {rid[w]}
             /\ rname[w] \in DOMAIN nameIndex
             /\ nameIndex[rname[w]] = rid[w]

\* C10 witness: the loser entered reserveName before the winner reserved
\* the name, and got the Conflict error.
C10_Witness ==
    \E p \in Callers, q \in Callers :
       /\ Contend(p, q)
       /\ rres[p] = "ok"
       /\ rres[q] = "Conflict"

\* the containers whose full id starts with ref
WithPrefix(ref) == { id \in store : IsPrefix(ref, id) }

\* C11: a reference that is no stored container's full id, is the reserved
\* name of a stored container and also begins the id of one or more stored
\* containers resolves to the container that owns the name, and never to
\* Ambiguous: the name is tried before the id prefix.
C11_NameBeforePrefix ==
    (/\ gres.kind # "none"
     /\ gref \notin store
     /\ GetByName(gref) # {}
     /\ WithPrefix(gref) # {}) =>
        /\ gres.kind = "ok"
        /\ gres.c = {nameIndex[WithSlash(gref)]}

\* C11 witness: the reference is the name of one container and begins the
\* ids of two, one of them another container than the name's owner.
C11_Witness ==
    /\ gres.kind = "ok"
    /\ gref \notin store
    /\ GetByName(gref) # {}
    /\ Cardinality(WithPrefix(gref)) > 1
    /\ gres.c = GetByName(gref)

\* C12: a reference that is the full id of a stored container resolves to
\* that container, also when the same string is the reserved name of
\* another container.
C12_ExactIDFirst ==
    (gres.kind # "none" /\ gref \in store) =>
        /\ gres.kind = "ok"
        /\ gres.c = {gref}

\* C12 witness: the reference is the full id of one container and the
\* reserved name of another one; the lookup returned the former.
C12_Witness ==
    /\ gref \in store
    /\ GetByName(gref) # {}
    /\ GetByName(gref) # {gref}
    /\ gres.c = {gref}

\* C13: a reference that is neither a stored full id nor a reserved name
\* resolves to the one container whose id it begins; when it begins more
\* than one id the lookup fails with Ambiguous, when it begins none with
\* NotFound, and a failed lookup returns no container.
C13_PrefixLookup ==
    (/\ gres.kind # "none"
     /\ gref \notin store
     /\ WithSlash(gref) \notin DOMAIN nameIndex) =>
        /\ Cardinality(WithPrefix(gref)) = 1 =>
              gres.kind = "ok" /\ gres.c = WithPrefix(gref)
        /\ Cardinality(WithPrefix(gref)) > 1 =>
              gres.kind = "Ambiguous" /\ gres.c = {}
        /\ WithPrefix(gref) = {} =>
              gres.kind = "NotFound" /\ gres.c = {}

\* C13 witness: the lookup of a reference that begins two ids and is no
\* name failed with Ambiguous.
C13_Witness ==
    /\ gres.kind = "Ambiguous"
    /\ gref \notin store
    /\ WithSlash(gref) \notin DOMAIN nameIndex
    /\ Cardinality(WithPrefix(gref)) = 2

\* the ids that appear in the link index, as parent or as child
Linked == { l[1] : l \in linkIndex } \cup { l[3] : l \in linkIndex }
\* the ids that own a reserved name
NameOwners == { nameIndex[n] : n \in DOMAIN nameIndex }

\* C14: a container whose GetRWLayer failed is in none of the name
\* registrar, the store, the id index, the link index and the restart set,
\* and no later phase has touched it; every registered container has its
\* RWLayer handle.
C14_LayerFailureNeverRegistered ==
    /\ \A id \in IDs :
          loaded[id] = "layerfail" =>
             /\ id \notin NameOwners
             /\ id \notin store
             /\ id \notin idIndex
             /\ id \notin Linked
             /\ id \notin restartContainers
             /\ regResult[id] = "none"
    /\ \A c \in store \cup NameOwners : ctr[c].RWLayer

\* C14 witness: restore returned nil; one container's layer failed, the
\* other one is registered with its layer and was put in the restart set.
C14_Witness ==
    /\ Returned
    /\ err = "nil"
    /\ \E a \in IDs, b \in IDs :
          /\ loaded[a] = "layerfail"
          /\ b \in store /\ b \in restartContainers /\ ctr[b].RWLayer

\* C15: a loaded container passes the driver test, and so goes on to
\* GetRWLayer, exactly when its recorded driver is the current one or it
\* records none and the current driver is "aufs".  Any other container is
\* skipped: no layer is acquired for it and it is not registered.  (A
\* container that passed the test is still dropped when GetRWLayer fails.)
C15_DriverFilter ==
    \A id \in IDs :
       loaded[id] \in {"ok", "layerfail", "driverskip"} =>
          LET match == \/ ctr[id].Driver = currentDriver
                       \/ ctr[id].Driver = "" /\ currentDriver = "aufs"
          IN  /\ match <=> loaded[id] \in {"ok", "layerfail"}
              /\ ~match =>
                    /\ loaded[id] = "driverskip"
                    /\ ~ctr[id].RWLayer
                    /\ id \notin store
                    /\ id \notin NameOwners
                    /\ regResult[id] = "none"

\* C15 witness: restore returned having kept a container without recorded
\* driver under "aufs" and skipped one that records another driver.
C15_Witness ==
    /\ Returned
    /\ currentDriver = "aufs"
    /\ \E a \in IDs, b \in IDs :
          /\ loaded[a] = "ok" /\ ctr[a].Driver = "" /\ a \in store
          /\ loaded[b] = "driverskip" /\ ctr[b].Driver = "overlay"

\* C16: the legacy link database is never opened more than once, and when
\* restore reaches the link loop it has been opened once if some loaded
\* container has a HostConfig whose Links is nil, and not at all otherwise.
C16_LegacyDBOpenedOnceIfNeeded ==
    /\ dbOpens <= 1
    /\ (pc = "links" /\ linksDone = {}) =>
          (dbOpens = 1 <=> \E c \in containers : ctr[c].HostConfig = "legacy")

\* C17: once a legacy link migration has failed, restore has returned its
\* error; no container was started and no mount point prepared.
C17_MigrationFailureIsFatal ==
    fault = "migrateLegacySqliteLinks" =>
       /\ Returned
       /\ err = "migrateLegacySqliteLinks"
       /\ started = {}
       /\ \A c \in IDs : wpc[c] = "idle" /\ mounts[c] = 0

\* C17 witness: a migration failed while a container stood in the restart
\* set and another one had been through the link loop.
C17_Witness ==
    /\ fault = "migrateLegacySqliteLinks"
    /\ Returned
    /\ restartContainers # {}
    /\ linksDone # {}

\* C18: prepareMountPoints is never called twice for a container, never
\* for a container of the restart set, and never before every restart
\* worker has made its start attempt and finished; when restore returns
\* nil it has been called once for every loaded container outside the
\* restart set.
C18_MountsOnceAfterRestartPass ==
    /\ \A c \in IDs :
          /\ mounts[c] <= 1
          /\ mounts[c] > 0 =>
                /\ c \in containers
                /\ c \notin restartContainers
                /\ \A r \in restartContainers : r \in started /\ wpc[r] = "done"
    /\ (Returned /\ err = "nil") =>
          \A c \in containers \ restartContainers : mounts[c] = 1

\* C18 witness: restore returned nil with one container started by the
\* restart pass and the other one's mount points prepared.
C18_Witness ==
    /\ Returned
    /\ err = "nil"
    /\ \E r \in restartContainers, c \in containers \ restartContainers :
          /\ r \in started
          /\ mounts[r] = 0
          /\ mounts[c] = 1

\* C19: when restore returns nil, every loaded container of policy
\* "always" that was persisted Running (and not Paused) has been restarted:
\* restore called containerStart for it or re-attached its supervision.
C19_RunningAlwaysRestarted ==
    (Returned /\ err = "nil") =>
       \A c \in containers :
          (/\ ctr[c].OnDisk.Running
           /\ ~ctr[c].OnDisk.Paused
           /\ ctr[c].Restart.Policy = "always") =>
             (c \in started \/ supervision[c] = "ok")

\* an on-failure:N container at rest after a non-zero exit, all of its
\* retries used
GaveUp(c) ==
    /\ ctr[c].Restart.Policy = "on-failure"
    /\ AtRest(c)
    /\ ctr[c].Restart.ExitCode # 0
    /\ ctr[c].Restart.RestartCount = ctr[c].Restart.MaximumRetryCount

\* C20: the RestartCount of a container run with on-failure:N never exceeds
\* N; a running container that comes to rest with a non-zero exit code has
\* RestartCount N; and a container at rest after a non-zero exit with
\* RestartCount N is started again neither by the restart manager nor by
\* restore: its state does not change any more.
C20_RetriesBounded ==
    /\ [](\A c \in IDs : ctr[c].Restart.RestartCount <= RetryLimit)
    /\ [][\A c \in IDs :
            /\ (/\ ctr[c].Running
                /\ ~ctr'[c].Running
                /\ ~ctr'[c].Restarting
                /\ ctr'[c].Restart.ExitCode # 0) =>
                   ctr'[c].Restart.RestartCount = RetryLimit
            /\ GaveUp(c) => ctr'[c] = ctr[c]]_vars

\* C20 witness: with AutoRestart on, a container that restore had started
\* again exited non-zero and is at rest with RestartCount N.
C20_Witness ==
    /\ autoRestart
    /\ \E c \in started :
          /\ GaveUp(c)
          /\ ctr[c].Restart.RestartCount = RetryLimit

\* C21: ConnectToNetwork and DisconnectFromNetwork are atomic with respect
\* to start, stop and removal of the container: when the settings of a
\* container found stopped are changed, the container is still neither
\* running nor marked for removal nor dead.
C21_NetworkChangeAtomic == nop.seen = {}

\* the networks the operation in flight leaves the container attached to
NetworksAfter ==
    IF nop.kind = "connect" THEN nop.before \cup {nop.n}
    ELSE nop.before \ {nop.n}

\* C22: an operation that changed the container's network settings in
\* memory went on to save the container; when the write failed it returned
\* the error of the write and the change is still in memory, and when it
\* returned nil the changed settings are the ones on disk.
C22_SavedAfterChange ==
    (nop.pc = "done" /\ nop.mutated) =>
       /\ nop.res \in {"nil", "Error saving container to disk"}
       /\ net[nop.c] = NetworksAfter
       /\ nop.res = "nil" => nop.saved = {net[nop.c]}

\* C22 witness: a connect to a network the container was not attached to
\* returned the error of the failed write, and the container is attached.
C22_Witness ==
    /\ nop.kind = "connect"
    /\ nop.pc = "done"
    /\ nop.res = "Error saving container to disk"
    /\ nop.n \notin nop.before
    /\ nop.n \in net[nop.c]

\* C23: setupLinkedContainers returns an error whenever a linked child is
\* not running, and link environment variables only when every linked child
\* is running.
C23_ErrorIfChildNotRunning ==
    call.fn = "setupLinkedContainers" =>
       /\ (\E l \in children(call.c) : ~IsRunning(l[2])) =>
             call.kind = "error"
       /\ call.kind = "env" => \A l \in children(call.c) : IsRunning(l[2])

\* C24: getIpcContainer returns the target container exactly when it
\* exists, is running and is not restarting; otherwise it returns an error
\* and no container.
C24_IpcTargetRunningNotRestarting ==
    call.fn = "getIpcContainer" =>
       /\ call.kind = "ok" <=>
             /\ call.c \in store
             /\ IsRunning(call.c)
             /\ ~ctr[call.c].Restarting
       /\ call.out = IF call.kind = "ok" THEN {call.c} ELSE {}

\* C24 witness: the target is in the store, running and waiting to be
\* restarted, and getIpcContainer returned an error.
C24_Witness ==
    /\ call.fn = "getIpcContainer"
    /\ call.c \in store
    /\ IsRunning(call.c)
    /\ ctr[call.c].Restarting
    /\ call.kind = "errContainerIsRestarting"
    /\ call.out = {}

\* every caller but q that reserved q's name has released it, and one did
ReleasedFor(q) ==
    /\ \E p \in Callers \ {q} : rpc[p] = "released" /\ rname[p] = rname[q]
    /\ \A p \in Callers \ {q} :
          (rres[p] = "ok" /\ rname[p] = rname[q]) => rpc[p] = "released"

\* C25: a name is reusable after releaseName: the Reserve of a reserveName
\* for a name whose holders have all released it succeeds, whatever the id,
\* and the registrar then maps the name to that id.
C25_ReleasedNameReusable ==
    [][\A q \in Callers :
          (rpc[q] = "reserve" /\ rpc'[q] # "reserve" /\ ReleasedFor(q)) =>
             /\ rres'[q] = "ok"
             /\ rname[q] \in DOMAIN nameIndex'
             /\ nameIndex'[rname[q]] = rid[q]]_vars

\* C25 witness: p reserved a name and released it; q then reserved the same
\* name for another id, and the registrar maps the name to q's id.
C25_Witness ==
    \E p, q \in Callers :
       /\ rpc[p] = "released"
       /\ rres[q] = "ok"
       /\ rname[q] = rname[p]
       /\ rid[q] # rid[p]
       /\ nameIndex[rname[q]] = rid[q]

\* a name as the registrar must hold it: one slash, a letter or digit, then
\* one or more name characters
StoredForm(n) ==
    /\ Len(n) >= 3
    /\ n[1] = Slash
    /\ IsAlnum(n[2])
    /\ \A i \in 3..Len(n) : IsNameChar(n[i])

\* C26: reserveName accepts only names that match the container name
\* pattern: a rejected name ends the call with an error and the registrar
\* as it was, and every name the registrar holds or a caller goes on to
\* reserve has exactly one leading slash before a valid name.
C26_OnlyValidNamesStored ==
    /\ [](/\ \A n \in DOMAIN nameIndex : StoredForm(n)
          /\ \A p \in Callers :
                rpc[p] \in {"reserve", "get", "released"} \/ rres[p] = "ok"
                   => StoredForm(rname[p]))
    /\ [][\A p \in Callers :
            (rpc[p] = "idle" /\ rres'[p] = "invalid") =>
                /\ rpc'[p] = "done"
                /\ nameIndex' = nameIndex]_vars

\* C26 witness: one caller's name was rejected, another's was passed
\* without a slash and is held by the registrar with one.
C26_Witness ==
    \E p, q \in Callers :
       /\ rres[p] = "invalid"
       /\ rres[q] = "ok"
       /\ rname[q] \in DOMAIN nameIndex
       /\ StoredForm(rname[q])

\* the last Reload returned nil for a configuration that sets a new,
\* non-empty cluster-advertise and does not set cluster-store
AdvertiseOnlyReloaded ==
    /\ rlres.res = "nil"
    /\ IsValueSet(rlres.config, "cluster-advertise")
    /\ ~IsValueSet(rlres.config, "cluster-store")
    /\ rlres.config.ClusterAdvertise # ""
    /\ rlres.config.ClusterAdvertise # rlres.before.ClusterAdvertise

\* C27: after a Reload whose configuration sets cluster-advertise but not
\* cluster-store, discovery is configured with the cluster store the daemon
\* had and the new advertise address, whether or not a discovery watcher
\* existed; ClusterStore is unchanged and ClusterAdvertise is the new
\* address.
C27_AdvertiseOnlyKeepsStore ==
    AdvertiseOnlyReloaded =>
       /\ discoveryWatcher.state = "running"
       /\ discoveryWatcher.store = rlres.before.ClusterStore
       /\ discoveryWatcher.advertise = rlres.config.ClusterAdvertise
       /\ configStore.ClusterStore = rlres.before.ClusterStore
       /\ configStore.ClusterAdvertise = rlres.config.ClusterAdvertise

\* C28: after a Reload whose configuration marks only labels as set, Labels
\* is the configuration's, and Debug, ClusterStore, ClusterAdvertise and
\* ClusterOpts are what they were.
C28_LabelsOnlyReload ==
    (rlres.res # "none" /\ rlres.config.set = {"labels"}) =>
       /\ configStore.Labels = rlres.config.Labels
       /\ configStore.Debug = rlres.before.Debug
       /\ configStore.ClusterStore = rlres.before.ClusterStore
       /\ configStore.ClusterAdvertise = rlres.before.ClusterAdvertise
       /\ configStore.ClusterOpts = rlres.before.ClusterOpts

\* the directory searched first, and the absolute entries of XDG_CONFIG_DIRS
\* in their listed order (the defaults when there is none)
ConfigHome ==
    IF IsAbs(xenv.XDG_CONFIG_HOME) THEN xenv.XDG_CONFIG_HOME
    ELSE DefaultConfigHome
AbsoluteEntries == {i \in DOMAIN xenv.XDG_CONFIG_DIRS :
                       IsAbs(xenv.XDG_CONFIG_DIRS[i])}
\* name is in directory d
Holds(d, name) == Join(d, name) \in xfs
\* the path SearchConfigPath returned is that of name in directory d
FoundIn(d, name) == xres.kind = "nil" /\ xres.path = Join(d, name)

\* C29: SearchConfigPath returns the path of the name in the first
\* directory that holds it: XDG_CONFIG_HOME, or the default config home
\* when that is unset or not absolute; then the absolute entries of
\* XDG_CONFIG_DIRS in their order, or the default config directories when
\* no entry is absolute.  When none holds it, it returns an error and the
\* empty path.
C29_SearchConfigPathOrder ==
    xres.kind # "none" =>
       LET dirs == xenv.XDG_CONFIG_DIRS
           others == IF AbsoluteEntries = {}
                     THEN {DefaultConfigsHome[i] :
                              i \in DOMAIN DefaultConfigsHome}
                     ELSE {dirs[i] : i \in AbsoluteEntries}
       IN  /\ Holds(ConfigHome, XdgFile) => FoundIn(ConfigHome, XdgFile)
           /\ (~Holds(ConfigHome, XdgFile) /\ AbsoluteEntries # {}) =>
                 \A i \in AbsoluteEntries :
                    (/\ Holds(dirs[i], XdgFile)
                     /\ \A j \in AbsoluteEntries :
                           j < i => ~Holds(dirs[j], XdgFile))
                       => FoundIn(dirs[i], XdgFile)
           /\ (~Holds(ConfigHome, XdgFile) /\ AbsoluteEntries = {}) =>
                 \A i \in DOMAIN DefaultConfigsHome :
                    (/\ Holds(DefaultConfigsHome[i], XdgFile)
                     /\ \A j \in DOMAIN DefaultConfigsHome :
                           j < i => ~Holds(DefaultConfigsHome[j], XdgFile))
                       => FoundIn(DefaultConfigsHome[i], XdgFile)
           /\ (\A d \in {ConfigHome} \cup others : ~Holds(d, XdgFile)) =>
                 xres = [kind |-> "error", path |-> << >>]

\* C29 witness: XDG_CONFIG_HOME is not absolute and the default home lacks
\* the file; a relative entry of XDG_CONFIG_DIRS holds it, and so do the
\* default directories; the path returned is that of the one absolute
\* entry, which holds it too.
C29_Witness ==
    /\ xenv.XDG_CONFIG_HOME = Relative
    /\ xenv.XDG_CONFIG_DIRS = <<Relative, Folder2>>
    /\ xfs = {Join(Relative, XdgFile), Join(Folder2, XdgFile),
              Join(DefaultConfigsHome[1], XdgFile)}
    /\ FoundIn(Folder2, XdgFile)

\* C30: the notifier of a container in the restart set is closed exactly
\* once, only after the container's containerStart has returned, and
\* whether the start succeeded or failed: the step that closes it is taken
\* from the statement after containerStart, on a channel not yet closed; a
\* worker past that statement has closed it and closes nothing again.
C30_NotifierClosedOnceAfterStart ==
    /\ [](\A c \in IDs :
            /\ c \in closed =>
                  c \in restartContainers /\ c \in started /\ wpc[c] = "done"
            /\ wpc[c] = "done" => c \in closed)
    /\ [][\A c \in closed' \ closed :
            wpc[c] = "close" /\ c \in started]_vars

\* C30 witness: restore has returned; the start of one restart-set
\* container failed, that of another succeeded, and both notifiers are
\* closed.
C30_Witness ==
    /\ Returned
    /\ \E c, d \in restartContainers :
          /\ {c, d} \subseteq closed
          /\ {c, d} \subseteq started
          /\ ~ctr[c].Running
          /\ ctr[d].Running

\* C31: the phases of restore are separated by barriers.  A first-pass
\* worker runs only when every loaded container has its registration
\* outcome, and no registration happens afterwards; a link is registered
\* only when every first-pass worker is done; containerStart is called by a
\* restart worker only when the link loop has handled every container; and
\* once a restart worker exists the restart set does not change.
C31_PhaseBarriers ==
    [][/\ pass1Done' # pass1Done =>
              /\ \A c \in containers : regResult[c] # "none"
              /\ regResult' = regResult
       /\ regResult' # regResult => pass1Done = {}
       /\ (linksDone' # linksDone \/ linkIndex' # linkIndex) =>
              /\ pass1Done = containers
              /\ pass1Done' = pass1Done
       /\ started' # started => linksDone = containers
       /\ (\E c \in IDs : wpc[c] # "idle" \/ wpc'[c] # "idle") =>
              restartContainers' = restartContainers]_vars

\* C31 witness: restore has returned after two containers went through the
\* first pass and the link loop, one of them with a link registered, and a
\* restart worker started one.
C31_Witness ==
    /\ Returned
    /\ err = "nil"
    /\ Cardinality(pass1Done) = 2
    /\ linksDone = pass1Done
    /\ linkIndex # {}
    /\ started # {}

\* C32: containerd.Restore is called for a container only if its persisted
\* state is Running or Paused and its ReinitRWLayer succeeded; and whatever
\* ReinitRWLayer or containerd.Restore returned for other containers, every
\* container goes through the first pass before the link loop, a running or
\* paused one gets its supervision restore attempted, and a container whose
\* own restore did not fail is scheduled for restart when it needs it, has
\* its RemovalInProgress reset to Dead, and raises the link migration flag
\* when its host configuration is a legacy one.
C32_SupervisionFailureIsPerContainer ==
    /\ [](\A c \in IDs :
            /\ supervision[c] \in {"containerd.Restore", "ok"} =>
                  ctr[c].OnDisk.Running \/ ctr[c].OnDisk.Paused
            /\ supervision[c] = "ReinitRWLayer" =>
                  ctr[c].OnDisk.Running \/ ctr[c].OnDisk.Paused
            /\ (pc = "links" /\ c \in containers) =>
                  /\ c \in pass1Done
                  /\ (ctr[c].OnDisk.Running \/ ctr[c].OnDisk.Paused) =>
                        supervision[c] # "none")
    /\ [][\A d \in pass1Done' \ pass1Done :
            supervision'[d] \in {"none", "ok"} =>
               /\ NeedsRestart(d) => d \in restartContainers'
               /\ ctr[d].RemovalInProgress =>
                     ctr'[d].Dead /\ ~ctr'[d].RemovalInProgress
               /\ NeedsMigration(d) => migrateLegacyLinks']_vars

\* C32 witness: the link loop is reached after ReinitRWLayer failed for one
\* container while another container, handled after it, was scheduled for
\* restart.
C32_Witness ==
    /\ pc = "links"
    /\ \E c, d \in pass1Done :
          /\ supervision[c] = "ReinitRWLayer"
          /\ supervision[d] = "none"
          /\ d \in restartContainers

\* C33: a reserveName whose Reserve found the name taken returns the
\* Conflict error naming an owner of the name, and no other error, however
\* the releaseName and reserveName calls of other callers interleave with
\* it; and the failed call leaves the name's mapping as it was.
C33_TakenNameAlwaysConflict ==
    /\ [](\A p \in Callers :
            (rpc[p] = "done" /\ rres[p] \notin {"ok", "invalid"}) =>
               /\ rres[p] = "Conflict"
               /\ rowner[p] # {})
    /\ [][\A p \in Callers :
            (rpc[p] = "get" /\ rpc'[p] = "done") =>
               nameIndex' = nameIndex]_vars

EntriesFor(c, n) == {r \in net[c] : Name(r) = n}

\* C35: for a stopped container not connected to network N, a connect by
\* any reference to N, its name or its id, followed by a disconnect from N
\* succeeds and gives back the Networks of before the connect: a stopped
\* container's disconnect from a network for which the settings hold an
\* entry never ends with "not connected", and when it has changed the
\* settings no entry for that network is left.
C35_ConnectThenDisconnectRestores ==
    [][(/\ nop.kind = "disconnect"
        /\ nop.pc = "mutate"
        /\ nop'.pc # "mutate"
        /\ EntriesFor(nop.c, nop.n) # {}) =>
          /\ nop'.res # "not connected"
          /\ nop'.mutated
          /\ EntriesFor(nop.c, nop.n)' = {}]_vars

\* C36: writeDistributionProgress takes every message off progressChan
\* until the channel is closed, also after a write to the client failed:
\* it returns only when the channel is closed and empty, having received
\* all that was sent.  cancelFunc is called at most once, and it is the
\* first failed write that calls it.
C36_DrainsAndCancelsOnce ==
    /\ [](/\ prog.cancels <= 1
          /\ (prog.cancels = 1) = (prog.failed >= 1)
          /\ prog.operationCancelled = (prog.cancels = 1)
          /\ prog.pc = "done" =>
                /\ prog.closed
                /\ prog.queued = << >>
                /\ prog.consumed = prog.sent)
    /\ [][/\ prog'.cancels # prog.cancels =>
                prog.failed = 0 /\ prog'.failed = 1
          /\ (prog.pc = "write" /\ prog'.pc # "write") =>
                prog'.pc = "range"]_vars

\* C36 witness: the function returned after it received every message the
\* operation sent; two of them could not be written, and one cancel was
\* made.
C36_Witness ==
    /\ prog.pc = "done"
    /\ prog.sent = MaxMessages
    /\ prog.consumed = MaxMessages
    /\ prog.failed = 2
    /\ prog.cancels = 1

\* the names the registrar holds for the id of generateNewName
NamesOfNewID == {n \in DOMAIN nameIndex : nameIndex[n] = NewID}

\* C37: generateNewName(id) makes at most 7 reservation attempts, 6 with
\* generated names and then one with "/" and the truncated id; it stops at
\* the first attempt that succeeds and at the first error that is not
\* name-reserved.  When it succeeds exactly one name is newly reserved for
\* id: the returned one, which begins with '/'.  When it fails no name is
\* newly reserved for id.
C37_GenerateNewNameAttempts ==
    /\ [](/\ gen.attempts <= GeneratedTries + 1
          /\ gen.pc = "loop" => gen.attempts = gen.i /\ NamesOfNewID = {}
          /\ gen.pc = "done" =>
                /\ gen.err = "nil" =>
                      /\ gen.name[1] = Slash
                      /\ NamesOfNewID \subseteq {gen.name}
                /\ gen.err # "nil" => NamesOfNewID = {}
                /\ gen.err = "ErrNameReserved" =>
                      /\ gen.attempts = GeneratedTries + 1
                      /\ gen.i = GeneratedTries)
    /\ [][/\ gen.pc = "done" => gen' = gen
          /\ gen'.attempts # gen.attempts =>
                /\ gen'.attempts = gen.attempts + 1
                /\ gen'.pc = "loop" =>
                      /\ nameIndex' = nameIndex
                      /\ \E n \in TryNames(gen.i) :
                            ReserveFails(nameIndex, n, NewID)
                /\ gen'.err = "nil" =>
                      /\ gen'.name \in TryNames(gen.i)
                      /\ gen'.name \notin DOMAIN nameIndex
                      /\ NamesOfNewID' = {gen'.name}
                      /\ DOMAIN nameIndex' = DOMAIN nameIndex \cup {gen'.name}
                      /\ \A n \in DOMAIN nameIndex :
                            nameIndex'[n] = nameIndex[n]
                /\ gen'.err \notin {"none", "nil"} =>
                      nameIndex' = nameIndex]_vars

\* C37 witness: the seventh attempt, with the truncated id, was the first
\* to succeed, every generated name tried having been taken.
C37_Witness ==
    /\ gen.pc = "done"
    /\ gen.err = "nil"
    /\ gen.attempts = GeneratedTries + 1
    /\ gen.name = <<Slash>> \o TruncateID
    /\ NamesOfNewID = {gen.name}

\* C38: when restore returns an error NewDaemon returns that error and no
\* daemon, and Shutdown has run on the daemon under construction before
\* NewDaemon returns.  From the moment Shutdown has begun IsShuttingDown
\* is true, and it never becomes false again.
C38_RestoreErrorShutsDown ==
    /\ [](/\ boot.returned = "daemon" => boot.err = "nil"
          /\ (boot.returned # "none" /\ boot.err \in RestoreErrors) =>
                /\ boot.returned = "nil"
                /\ boot.pc = "returned"
                /\ boot.shutdownErr # "none"
                /\ boot.seen = store
                /\ IsShuttingDown
          /\ boot.pc \in {"containers", "shutdownDone", "stopped"} =>
                IsShuttingDown
          /\ boot.seen # {} => IsShuttingDown)
    /\ [][/\ IsShuttingDown => IsShuttingDown'
          /\ boot.err # "none" => boot'.err = boot.err]_vars

\* C38 witness: NewDaemon has returned the error of the link migration
\* after Shutdown went over two containers, one of them running and
\* stopped by it.
C38_Witness ==
    /\ boot.pc = "returned"
    /\ boot.returned = "nil"
    /\ boot.err = "migrateLegacySqliteLinks"
    /\ Cardinality(boot.seen) = 2
    /\ IsShuttingDown

====
